---- MODULE Spec2Model ----
(***************************************************************************)
(* The cache abstraction of sql-mcp: MemoryCache (core/cache/memory.ts)    *)
(* and FileCache (core/cache/file.ts) behind the ICache contract.          *)
(*                                                                         *)
(* One behaviour follows one cache instance of one backend, driven by a    *)
(* caller that awaits each call before issuing the next.  Work the code    *)
(* starts without awaiting it (FileCache.set's capacity check) is a        *)
(* separate step that may run at any later point.  Time is the value of    *)
(* Date.now() in milliseconds; it only moves in Tick.  The values written  *)
(* are opaque to the cache: every set() writes a value not written before  *)
(* (the number of the step), so that a read names the write it returns.    *)
(***************************************************************************)
EXTENDS Integers, Sequences, FiniteSets, TLC

VARIABLES
    maxSize,     \* options.maxSize
    backend,     \* "memory" | "file": which class the instance is
    defaultTtl,  \* options.ttl, seconds
    now,         \* Date.now()
    cache,       \* MemoryCache.cache: the Map, as its entries in insertion order
    disk,        \* FileCache: the namespace directory, key -> decoded file or NoFile
    stats,       \* stats.hits, stats.misses, stats.lastCleanup
    pending,     \* FileCache: capacity checks started by set() and not yet run
    last,        \* the call that made the last step: what it returned (val, ok)
                 \* and the live entries it removed for capacity (evicted); for
                 \* set(), ok tells whether the key was stored before; for a
                 \* capacity check, whether an overwriting set() started it
    hist,        \* history: per key, the latest set() still in force
    lru,         \* history: the stored keys, least recently used first
    steps,       \* number of set() and other calls made, the bound of the model
    views,       \* the cache instances made so far, each by its options.namespace:
                 \* views[1] by the application, the others by withNamespace()
    inited,      \* FileCache.initialized of each instance
    maps,        \* MemoryCache.cache of each instance: namespaced key -> value
    files,       \* the file system under baseDir: file path -> value
    dirs,        \* the file system under baseDir: the directories that exist
    nsLast,      \* the call that made the last step, and the instance it went to
    calls,       \* concurrent getOrSet(key, factory) calls: where each one is
    runs,        \* how many times the factory was invoked
    slot,        \* what is stored for key: the Map entry, or the bytes of the file
    locks,       \* FileCache: the lock each call made in acquireLock, its promise
                 \* and its timer
    fileLocks,   \* FileCache.fileLocks: the call whose lock is in the Map for the
                 \* path of key, 0 for none
    disposed,    \* dispose() was called
    raised,      \* the call that made the last step rejected (threw)
    unhandled,   \* a promise nobody awaits was rejected with no handler on it
    dirState,    \* FileCache: what is at the path of the namespace directory
    initialized, \* FileCache.initialized
    cleanupTimer,    \* the interval timer of the constructor is set (not null)
    cleanupInterval, \* options.cleanupInterval, milliseconds
    timerDue,    \* the instant at which the interval timer fires next
    gets,        \* history: the get() calls of the caller, by what they returned
    codec,       \* FileCache: the options and the bytes of one write and its read
    mw           \* the rate-limit middleware: its options, its counters, its answers

\* one cache instance and its clock
cacheVars == <<maxSize, backend, defaultTtl, now, cache, disk, stats, pending, last, hist, lru, steps>>

\* several instances that differ by namespace
nsVars == <<views, inited, maps, files, dirs, nsLast>>

\* concurrent calls on one key of one instance
lockVars == <<calls, runs, slot, locks, fileLocks, disposed>>

\* the environment of one instance: failures, timers, what its calls returned
envVars == <<raised, unhandled, dirState, initialized, cleanupTimer, cleanupInterval,
             timerDue, gets, codec, mw>>

vars == <<cacheVars, nsVars, lockVars, envVars>>

-----------------------------------------------------------------------------
(* Bounds of the model *)

MaxSize == 2
MaxSteps == 4

Keys == {"a", "b", "c"}
MaxSizes == 1..MaxSize

(* options.ttl of the instance under test, and the ttl argument of set():  *)
(* <<>> is an omitted argument, <<n>> the argument n.                      *)
DefaultTtls == {0, 1}
TtlArgs == {<<>>, <<0>>, <<1>>}

(* Clock advances between two calls, in milliseconds. *)
Deltas == {1000}

-----------------------------------------------------------------------------
(* Values of the program *)

MsPerSec == 1000

\* expiry: number | null -- null is modelled as -1
NoExpiry == -1

\* hitCount?: number -- an entry without the field holds -1
NoHitCount == -1

\* get() returning undefined
NotFound == 0


NoFile == [value |-> 0, expiry |-> NoExpiry, lastAccessed |-> -1, createdAt |-> -1,
           hitCount |-> NoHitCount]

\* a file whose bytes do not decode (decryption, gunzip or JSON.parse throws)
Garbage == [value |-> 0, expiry |-> NoExpiry, lastAccessed |-> -2, createdAt |-> -2,
            hitCount |-> NoHitCount]

NoHist == [live |-> FALSE, value |-> 0, at |-> 0, ttl |-> <<>>, kind |-> "none"]

NoKey == ""

Idle == [op |-> "init", key |-> NoKey, val |-> NotFound, ok |-> FALSE, evicted |-> {}]

Call(op, k, val, ok, ev) == [op |-> op, key |-> k, val |-> val, ok |-> ok, evicted |-> ev]

\* the stored bytes of one key: none, an entry that decodes to value, or
\* bytes that do not decode
NoSlot == [kind |-> "none", value |-> NotFound]

Bytes(v) == [kind |-> "entry", value |-> v]

Unreadable == [kind |-> "garbage", value |-> NotFound]

NsIdle == [op |-> "init", view |-> 0, key |-> NoKey, val |-> NotFound]

NsCall(op, v, k, val) == [op |-> op, view |-> v, key |-> k, val |-> val]

-----------------------------------------------------------------------------
(* Helpers shared by both backends *)

\* mutant: an entry expires one millisecond early
Expired_Early(e, t) == e.expiry # NoExpiry /\ e.expiry <= t

\* entry.expiry !== null && entry.expiry < now
Expired(e, t) == e.expiry # NoExpiry /\ e.expiry < t

\* mutant: the ttl is taken as minutes
ComputeExpiry_Minutes(ttl, t) ==
    IF Len(ttl) > 0
    THEN (IF ttl[1] > 0 THEN t + ttl[1] * 60 * MsPerSec ELSE NoExpiry)
    ELSE (IF defaultTtl > 0 THEN t + defaultTtl * 60 * MsPerSec ELSE NoExpiry)

\* mutant: a ttl of 0 is taken for an omitted one (ttl || options.ttl)
ComputeExpiry_ZeroIsOmitted(ttl, t) ==
    IF Len(ttl) > 0 /\ ttl[1] # 0
    THEN (IF ttl[1] > 0 THEN t + ttl[1] * MsPerSec ELSE NoExpiry)
    ELSE (IF defaultTtl > 0 THEN t + defaultTtl * MsPerSec ELSE NoExpiry)

\* the expiry set() computes from its ttl argument
ComputeExpiry(ttl, t) ==
    IF Len(ttl) > 0
    THEN (IF ttl[1] > 0 THEN t + ttl[1] * MsPerSec ELSE NoExpiry)
    ELSE (IF defaultTtl > 0 THEN t + defaultTtl * MsPerSec ELSE NoExpiry)

\* (entry.hitCount || 0)
HitCountOf(e) == IF e.hitCount = NoHitCount THEN 0 ELSE e.hitCount

\* a sequence without the elements whose key is in ks
RECURSIVE Without(_, _)
Without(s, ks) ==
    IF s = <<>> THEN <<>>
    ELSE IF Head(s) \in ks THEN Without(Tail(s), ks)
         ELSE <<Head(s)>> \o Without(Tail(s), ks)

\* history: k is used now
Touch(s, k) == Append(Without(s, {k}), k)

-----------------------------------------------------------------------------
(* MemoryCache *)

MemKeys(c) == {c[i].key : i \in 1..Len(c)}

\* Map.has
MemHasKey(c, k) == k \in MemKeys(c)

\* Map.get: the entry stored under k (MemHasKey(c, k) holds)
MemEntry(c, k) == c[CHOOSE i \in 1..Len(c) : c[i].key = k]

\* Map.delete
RECURSIVE MemRemove(_, _)
MemRemove(c, ks) ==
    IF c = <<>> THEN <<>>
    ELSE IF Head(c).key \in ks THEN MemRemove(Tail(c), ks)
         ELSE <<Head(c)>> \o MemRemove(Tail(c), ks)

\* mutant: an existing entry is updated in place and keeps its createdAt
MemPut_KeepCreatedAt(c, e) ==
    IF MemHasKey(c, e.key)
    THEN [i \in 1..Len(c) |->
             IF c[i].key = e.key THEN [e EXCEPT !.createdAt = c[i].createdAt] ELSE c[i]]
    ELSE Append(c, e)

\* Map.set: an existing key keeps its place in the iteration order
MemPut(c, e) ==
    IF MemHasKey(c, e.key)
    THEN [i \in 1..Len(c) |-> IF c[i].key = e.key THEN e ELSE c[i]]
    ELSE Append(c, e)

\* mutant: the entry used last is taken (the sort is descending)
LRUVictim_Newest(c) ==
    LET i == CHOOSE i \in 1..Len(c) :
                 /\ \A j \in 1..Len(c) : c[i].lastAccessed >= c[j].lastAccessed
                 /\ \A j \in 1..(i - 1) : c[j].lastAccessed < c[i].lastAccessed
    IN  c[i].key

\* evictLRU: entries[0] of the entries sorted by lastAccessed; the sort is
\* stable, so of several oldest entries the first in Map order is taken
LRUVictim(c) ==
    LET i == CHOOSE i \in 1..Len(c) :
                 /\ \A j \in 1..Len(c) : c[i].lastAccessed <= c[j].lastAccessed
                 /\ \A j \in 1..(i - 1) : c[j].lastAccessed > c[i].lastAccessed
    IN  c[i].key

EvictSet(c) == IF Len(c) < maxSize \/ Len(c) = 0 THEN {} ELSE {LRUVictim(c)}

\* set(): the entry written (lines 315-321)
NewEntry(k, v, ttl, t) ==
    [key |-> k, value |-> v, expiry |-> ComputeExpiry(ttl, t), lastAccessed |-> t,
     createdAt |-> t, hitCount |-> 0]

\* mutant: set() evicts only when the Map holds more than maxSize entries
MemSetEvicts_Above(c, k) ==
    IF ~MemHasKey(c, k) /\ Len(c) > maxSize THEN EvictSet(c) ELSE {}

\* set(): the keys evicted before the insert
MemSetEvicts(c, k) ==
    IF ~MemHasKey(c, k) /\ Len(c) >= maxSize THEN EvictSet(c) ELSE {}

\* set(): the Map after the call
MemSetCache(c, k, v, ttl, t) ==
    MemPut(MemRemove(c, MemSetEvicts(c, k)), NewEntry(k, v, ttl, t))

\* mutant: a hit refreshes lastAccessed and does not count
MemGetTouch_NoCount(e, t) == [e EXCEPT !.lastAccessed = t]

\* get(): a hit refreshes lastAccessed and counts the hit
MemGetTouch(e, t) == [e EXCEPT !.lastAccessed = t, !.hitCount = HitCountOf(e) + 1]

\* get(): the Map after the call
MemGetCache(c, k, t) ==
    IF ~MemHasKey(c, k) THEN c
    ELSE IF Expired(MemEntry(c, k), t) THEN MemRemove(c, {k})
         ELSE MemPut(c, MemGetTouch(MemEntry(c, k), t))

\* mutant: get() finds nothing
MemGetResult_Miss(c, k, t) == NotFound

\* get(): the value returned
MemGetResult(c, k, t) ==
    IF MemHasKey(c, k) /\ ~Expired(MemEntry(c, k), t) THEN MemEntry(c, k).value
    ELSE NotFound

\* has(): the Map after the call
MemHasCache(c, k, t) ==
    IF MemHasKey(c, k) /\ Expired(MemEntry(c, k), t) THEN MemRemove(c, {k}) ELSE c

\* has(): the value returned
MemHasResult(c, k, t) == MemHasKey(c, k) /\ ~Expired(MemEntry(c, k), t)

\* delete(): the value returned is Map.delete's
MemDeleteResult(c, k) == MemHasKey(c, k)

\* mutant: the sweep keeps the entries whose expiry is the oldest
MemSweep_KeepsOne(c, t) ==
    MemRemove(c, {k \in MemKeys(c) :
                    /\ Expired(MemEntry(c, k), t)
                    /\ \E j \in MemKeys(c) : MemEntry(c, j).expiry < MemEntry(c, k).expiry})

\* cleanup(): the sweep of expired entries
MemSweep(c, t) == MemRemove(c, {k \in MemKeys(c) : Expired(MemEntry(c, k), t)})

\* cleanup(): the keys evicted after the sweep (ensureCapacity -> evictLRU)
MemCleanupEvicts(c, t) ==
    IF Len(MemSweep(c, t)) > maxSize THEN EvictSet(MemSweep(c, t)) ELSE {}

-----------------------------------------------------------------------------
(* Steps of MemoryCache.  Its methods hold no await that suspends, so a    *)
(* call is one step.                                                       *)

\* a step that makes n calls of set() or of another method
Steps(n) == steps + n <= MaxSteps /\ steps' = steps + n

Step == Steps(1)

Forget(h, ks) == [k \in Keys |-> IF k \in ks THEN NoHist ELSE h[k]]

\* history: set(k, v, ttl) at time t, evicting ev
HistSet(h, ev, k, v, ttl, t) ==
    [Forget(h, ev) EXCEPT ![k] =
        [live |-> TRUE, value |-> v, at |-> t, ttl |-> ttl, kind |-> "set"]]

LruSet(l, ev, k) == Touch(Without(l, ev), k)

MemSetBody(op, k, v, ttl) ==
    /\ cache' = MemSetCache(cache, k, v, ttl, now)
    /\ hist' = HistSet(hist, MemSetEvicts(cache, k), k, v, ttl, now)
    /\ lru' = LruSet(lru, MemSetEvicts(cache, k), k)
    /\ last' = Call(op, k, NotFound, MemHasKey(cache, k), MemSetEvicts(cache, k))

MemGetBody(op, k) ==
    LET r == MemGetResult(cache, k, now)
    IN  /\ cache' = MemGetCache(cache, k, now)
        /\ stats' = IF r = NotFound
                    THEN [stats EXCEPT !.misses = @ + 1]
                    ELSE [stats EXCEPT !.hits = @ + 1]
        /\ hist' = IF r = NotFound THEN hist ELSE [hist EXCEPT ![k].kind = "get"]
        /\ lru' = IF r = NotFound THEN Without(lru, {k}) ELSE Touch(lru, k)
        /\ last' = Call(op, k, r, r # NotFound, {})

MemSet(k, v, ttl) ==
    /\ backend = "memory"
    /\ Step
    /\ MemSetBody("set", k, v, ttl)
    /\ UNCHANGED <<maxSize, backend, defaultTtl, now, disk, stats, pending>>

\* setMany(): Promise.all over set() calls, each of which runs to its end
\* when it is made, in the order of the entries
MemSetMany(k1, k2, v1, v2, ttl) ==
    /\ backend = "memory"
    /\ Steps(2)
    /\ LET c1 == MemSetCache(cache, k1, v1, ttl, now)
           ev1 == MemSetEvicts(cache, k1)
           ev2 == MemSetEvicts(c1, k2)
       IN  /\ cache' = MemSetCache(c1, k2, v2, ttl, now)
           /\ hist' = HistSet(HistSet(hist, ev1, k1, v1, ttl, now), ev2, k2, v2, ttl, now)
           /\ lru' = LruSet(LruSet(lru, ev1, k1), ev2, k2)
           /\ last' = Call("setMany", k2, NotFound, TRUE, ev1 \cup ev2)
    /\ UNCHANGED <<maxSize, backend, defaultTtl, now, disk, stats, pending>>

MemGet(k) ==
    /\ backend = "memory"
    /\ Step
    /\ MemGetBody("get", k)
    /\ UNCHANGED <<maxSize, backend, defaultTtl, now, disk, pending>>

\* getOrSet(): get(); on a miss the factory makes v, which is set and
\* returned
MemGetOrSet(k, v, ttl) ==
    /\ backend = "memory"
    /\ IF MemGetResult(cache, k, now) # NotFound
       THEN /\ Step
            /\ MemGetBody("getOrSet", k)
            /\ UNCHANGED <<now, disk, pending>>
       ELSE /\ Steps(2)
            /\ stats' = [stats EXCEPT !.misses = @ + 1]
            /\ LET c1 == MemGetCache(cache, k, now)
               IN  /\ cache' = MemSetCache(c1, k, v, ttl, now)
                   /\ hist' = HistSet(hist, MemSetEvicts(c1, k), k, v, ttl, now)
                   /\ lru' = LruSet(lru, MemSetEvicts(c1, k), k)
                   /\ last' = Call("getOrSet", k, v, FALSE, MemSetEvicts(c1, k))
            /\ UNCHANGED <<now, disk, pending>>
    /\ UNCHANGED <<maxSize, backend, defaultTtl>>

MemHas(k) ==
    /\ backend = "memory"
    /\ Step
    /\ cache' = MemHasCache(cache, k, now)
    /\ lru' = IF MemHasResult(cache, k, now) THEN lru ELSE Without(lru, {k})
    /\ last' = Call("has", k, NotFound, MemHasResult(cache, k, now), {})
    /\ UNCHANGED <<maxSize, backend, defaultTtl, now, disk, stats, pending, hist>>

MemDelete(k) ==
    /\ backend = "memory"
    /\ Step
    /\ cache' = MemRemove(cache, {k})
    /\ hist' = Forget(hist, {k})
    /\ lru' = Without(lru, {k})
    /\ last' = Call("delete", k, NotFound, MemDeleteResult(cache, k), {})
    /\ UNCHANGED <<maxSize, backend, defaultTtl, now, disk, stats, pending>>

\* cleanup(), called by the owner or by the timer
MemCleanup ==
    /\ backend = "memory"
    /\ Step
    /\ LET ev == MemCleanupEvicts(cache, now)
       IN  /\ cache' = MemRemove(MemSweep(cache, now), ev)
           /\ hist' = Forget(hist, ev)
           /\ lru' = Without(lru, (MemKeys(cache) \ MemKeys(MemSweep(cache, now))) \cup ev)
           /\ last' = Call("cleanup", NoKey, NotFound, TRUE, ev)
    /\ stats' = [stats EXCEPT !.lastCleanup = now]
    /\ UNCHANGED <<maxSize, backend, defaultTtl, now, disk, pending>>

\* the clock moves between two calls
Tick(d) ==
    /\ Step
    /\ now' = now + d
    /\ last' = Call("tick", NoKey, NotFound, TRUE, {})
    /\ UNCHANGED <<maxSize, backend, defaultTtl, cache, disk, stats, pending, hist, lru>>

-----
(* FileCache *)

\* every RecencyEvery-th hit persists lastAccessed and hitCount
RecencyEvery == 10

FileStored(d) == {k \in Keys : d[k] # NoFile}

\* mutant: bytes that do not decode are taken for an entry
FileReadOk_NoDecode(d, k, t) == d[k] # NoFile /\ ~Expired(d[k], t)

\* readEntry: the entry is returned (not null); a missing file and bytes
\* that do not decode end in the catch
FileReadOk(d, k, t) == d[k] # NoFile /\ d[k] # Garbage /\ ~Expired(d[k], t)

\* mutant: the catch of readEntry unlinks the file
FileReadDisk_Unlinks(d, k, t) ==
    IF d[k] # NoFile /\ (d[k] = Garbage \/ Expired(d[k], t))
    THEN [d EXCEPT ![k] = NoFile]
    ELSE d

\* readEntry: the directory after the read; an expired file is unlinked
FileReadDisk(d, k, t) ==
    IF d[k] # NoFile /\ Expired(d[k], t) THEN [d EXCEPT ![k] = NoFile] ELSE d

\* writeEntry: the entry persisted; it carries no hitCount
FileNewEntry(v, expiry, t) ==
    [value |-> v, expiry |-> expiry, lastAccessed |-> t, createdAt |-> t,
     hitCount |-> NoHitCount]

\* set(): the directory after writeEntry
FileSetDisk(d, k, v, ttl, t) ==
    [d EXCEPT ![k] = FileNewEntry(v, ComputeExpiry(ttl, t), t)]

\* updateAccessTime: the hit count of the entry just read
FileHitCount(e) == HitCountOf(e) + 1

\* updateAccessTime: the directory after a hit on k
FileTouchDisk(d, k, t) ==
    IF FileHitCount(d[k]) % RecencyEvery = 0
    THEN [d EXCEPT ![k] = [@ EXCEPT !.lastAccessed = t, !.hitCount = FileHitCount(d[k])]]
    ELSE d

\* get(): the directory after the call
FileGetDisk(d, k, t) ==
    IF FileReadOk(d, k, t) THEN FileTouchDisk(d, k, t) ELSE FileReadDisk(d, k, t)

\* get(): the value returned
FileGetResult(d, k, t) == IF FileReadOk(d, k, t) THEN d[k].value ELSE NotFound

\* delete(): true when unlink succeeds, that is when the file exists
FileDeleteResult(d, k) == d[k] # NoFile

\* mutant: the first pass keeps the files that do not decode
FileSweep_ExpiredOnly(d, t) ==
    [k \in Keys |-> IF d[k] # NoFile /\ Expired(d[k], t) THEN NoFile ELSE d[k]]

\* cleanup(), first pass: expired files and files that do not decode are
\* unlinked
FileSweep(d, t) ==
    [k \in Keys |->
        IF d[k] # NoFile /\ (d[k] = Garbage \/ Expired(d[k], t)) THEN NoFile ELSE d[k]]

\* cleanup(), second pass: the sets of files it may delete to get back to
\* maxSize, oldest lastAccessed first; entries of equal lastAccessed are
\* taken in readdir order, which is any order
FileTrims(d) ==
    IF Cardinality(FileStored(d)) <= maxSize THEN {{}}
    ELSE {D \in SUBSET FileStored(d) :
            /\ Cardinality(D) = Cardinality(FileStored(d)) - maxSize
            /\ \A x \in D, y \in FileStored(d) \ D :
                   d[x].lastAccessed <= d[y].lastAccessed}

\* ensureCapacity: cleanup() runs only when the directory holds more than
\* maxSize files
FileNeedsCleanup(d) == Cardinality(FileStored(d)) > maxSize

FileRemove(d, ks) == [k \in Keys |-> IF k \in ks THEN NoFile ELSE d[k]]

-----------------------------------------------------------------------------
(* Steps of FileCache.  A call that the caller awaits is one step; the     *)
(* capacity check that set() starts and does not await is a step of its    *)
(* own.                                                                    *)

Task(k) == [key |-> k, overwrite |-> FileReadOk(disk, k, now)]

FileSetBody(op, k, v, ttl) ==
    /\ disk' = FileSetDisk(disk, k, v, ttl, now)
    /\ pending' = pending \cup {Task(k)}
    /\ hist' = HistSet(hist, {}, k, v, ttl, now)
    /\ lru' = Touch(lru, k)
    /\ last' = Call(op, k, NotFound, disk[k] # NoFile, {})

FileGetBody(op, k) ==
    LET r == FileGetResult(disk, k, now)
    IN  /\ disk' = FileGetDisk(disk, k, now)
        /\ stats' = IF r = NotFound
                    THEN [stats EXCEPT !.misses = @ + 1]
                    ELSE [stats EXCEPT !.hits = @ + 1]
        /\ hist' = IF r = NotFound THEN hist ELSE [hist EXCEPT ![k].kind = "get"]
        /\ lru' = IF r = NotFound THEN Without(lru, {k}) ELSE Touch(lru, k)
        /\ last' = Call(op, k, r, r # NotFound, {})

FileSet(k, v, ttl) ==
    /\ backend = "file"
    /\ Step
    /\ FileSetBody("set", k, v, ttl)
    /\ UNCHANGED <<maxSize, backend, defaultTtl, now, cache, stats>>

\* setMany(): Promise.all over set() calls; both writes are done when it
\* returns, and each has started its capacity check
FileSetMany(k1, k2, v1, v2, ttl) ==
    /\ backend = "file"
    /\ Steps(2)
    /\ disk' = FileSetDisk(FileSetDisk(disk, k1, v1, ttl, now), k2, v2, ttl, now)
    /\ pending' = pending \cup {Task(k1), Task(k2)}
    /\ hist' = HistSet(HistSet(hist, {}, k1, v1, ttl, now), {}, k2, v2, ttl, now)
    /\ lru' = Touch(Touch(lru, k1), k2)
    /\ last' = Call("setMany", k2, NotFound, TRUE, {})
    /\ UNCHANGED <<maxSize, backend, defaultTtl, now, cache, stats>>

FileGet(k) ==
    /\ backend = "file"
    /\ Step
    /\ FileGetBody("get", k)
    /\ UNCHANGED <<maxSize, backend, defaultTtl, now, cache, pending>>

\* getOrSet(): get(); on a miss the factory makes v, which is set and
\* returned
FileGetOrSet(k, v, ttl) ==
    /\ backend = "file"
    /\ IF FileGetResult(disk, k, now) # NotFound
       THEN /\ Step
            /\ FileGetBody("getOrSet", k)
            /\ UNCHANGED <<now, cache, pending>>
       ELSE /\ Steps(2)
            /\ stats' = [stats EXCEPT !.misses = @ + 1]
            /\ LET d1 == FileGetDisk(disk, k, now)
               IN  /\ disk' = FileSetDisk(d1, k, v, ttl, now)
                   /\ pending' = pending \cup {[key |-> k, overwrite |-> FALSE]}
                   /\ hist' = HistSet(hist, {}, k, v, ttl, now)
                   /\ lru' = Touch(lru, k)
                   /\ last' = Call("getOrSet", k, v, FALSE, {})
            /\ UNCHANGED <<now, cache>>
    /\ UNCHANGED <<maxSize, backend, defaultTtl>>

FileHas(k) ==
    /\ backend = "file"
    /\ Step
    /\ disk' = FileReadDisk(disk, k, now)
    /\ lru' = IF FileReadOk(disk, k, now) THEN lru ELSE Without(lru, {k})
    /\ last' = Call("has", k, NotFound, FileReadOk(disk, k, now), {})
    /\ UNCHANGED <<maxSize, backend, defaultTtl, now, cache, stats, pending, hist>>

FileDelete(k) ==
    /\ backend = "file"
    /\ Step
    /\ disk' = FileRemove(disk, {k})
    /\ hist' = Forget(hist, {k})
    /\ lru' = Without(lru, {k})
    /\ last' = Call("delete", k, NotFound, FileDeleteResult(disk, k), {})
    /\ UNCHANGED <<maxSize, backend, defaultTtl, now, cache, stats, pending>>

\* the body of cleanup(), run for op
FileCleanupBody(op, k, ok) ==
    \E D \in FileTrims(FileSweep(disk, now)) :
        /\ disk' = FileRemove(FileSweep(disk, now), D)
        /\ hist' = Forget(hist, D)
        /\ lru' = Without(lru, (FileStored(disk) \ FileStored(FileSweep(disk, now))) \cup D)
        /\ stats' = [stats EXCEPT !.lastCleanup = now]
        /\ last' = Call(op, k, NotFound, ok, D)

\* cleanup(), called by the owner or by the timer
FileCleanup ==
    /\ backend = "file"
    /\ Step
    /\ FileCleanupBody("cleanup", NoKey, TRUE)
    /\ UNCHANGED <<maxSize, backend, defaultTtl, now, cache, pending>>

\* ensureCapacity(), started by set() and not awaited
FileEnsureCapacity(task) ==
    /\ backend = "file"
    /\ Step
    /\ task \in pending
    /\ pending' = pending \ {task}
    /\ IF FileNeedsCleanup(disk)
       THEN FileCleanupBody("ensureCapacity", task.key, task.overwrite)
       ELSE /\ last' = Call("ensureCapacity", task.key, NotFound, task.overwrite, {})
            /\ UNCHANGED <<disk, hist, lru, stats>>
    /\ UNCHANGED <<maxSize, backend, defaultTtl, now, cache>>

-----
(* The bytes of an entry file: the entry is turned into JSON text, the     *)
(* text into bytes, the bytes are gzipped when options.compression is set  *)
(* and encrypted when options.encryptionKey is set; a read undoes the      *)
(* layers it expects.                                                      *)

\* a JSON value: t is its type, n the number or the boolean, s the string,
\* keys and items the members of an object or the items of an array
JNull == [t |-> "null", n |-> 0, s |-> <<>>, keys |-> <<>>, items |-> <<>>]
JBool(b) == [t |-> "bool", n |-> IF b THEN 1 ELSE 0, s |-> <<>>, keys |-> <<>>, items |-> <<>>]
JNum(n) == [t |-> "num", n |-> n, s |-> <<>>, keys |-> <<>>, items |-> <<>>]
JStr(s) == [t |-> "str", n |-> 0, s |-> s, keys |-> <<>>, items |-> <<>>]
JArr(items) == [t |-> "arr", n |-> 0, s |-> <<>>, keys |-> <<>>, items |-> items]
JObj(keys, items) == [t |-> "obj", n |-> 0, s |-> <<>>, keys |-> keys, items |-> items]

\* a value the caller holds by reference
IsObject(v) == v.t \in {"arr", "obj"}

Quote == "\""
DigitChars == <<"0", "1", "2", "3", "4", "5", "6", "7", "8", "9">>
DigitSet == {DigitChars[i] : i \in 1..Len(DigitChars)}
DigitVal(ch) == CHOOSE d \in 0..9 : DigitChars[d + 1] = ch
NullText == <<"n", "u", "l", "l">>
TrueText == <<"t", "r", "u", "e">>
FalseText == <<"f", "a", "l", "s", "e">>

RECURSIVE Digits(_)
Digits(n) ==
    IF n < 10 THEN <<DigitChars[n + 1]>>
    ELSE Digits(n \div 10) \o <<DigitChars[(n % 10) + 1]>>

\* JSON.stringify
RECURSIVE Stringify(_), StringifyItems(_, _), StringifyFields(_, _, _)
Stringify(v) ==
    CASE v.t = "null" -> NullText
      [] v.t = "bool" -> IF v.n = 1 THEN TrueText ELSE FalseText
      [] v.t = "num" -> IF v.n < 0 THEN <<"-">> \o Digits(-v.n) ELSE Digits(v.n)
      [] v.t = "str" -> <<Quote>> \o v.s \o <<Quote>>
      [] v.t = "arr" -> <<"[">> \o StringifyItems(v.items, 1) \o <<"]">>
      [] v.t = "obj" -> <<"{">> \o StringifyFields(v.keys, v.items, 1) \o <<"}">>

StringifyItems(items, i) ==
    IF i > Len(items) THEN <<>>
    ELSE (IF i > 1 THEN <<",">> ELSE <<>>) \o Stringify(items[i]) \o StringifyItems(items, i + 1)

StringifyFields(keys, items, i) ==
    IF i > Len(keys) THEN <<>>
    ELSE (IF i > 1 THEN <<",">> ELSE <<>>) \o <<Quote>> \o keys[i] \o <<Quote, ":">>
         \o Stringify(items[i]) \o StringifyFields(keys, items, i + 1)

\* JSON.parse of the text from position i: the value and the position after
\* it, or ok = FALSE where JSON.parse throws a SyntaxError
Bad == [ok |-> FALSE, v |-> JNull, i |-> 0]
Parsed(v, i) == [ok |-> TRUE, v |-> v, i |-> i]
At(t, i) == IF i >= 1 /\ i <= Len(t) THEN t[i] ELSE ""
Lit(t, i, w) == i + Len(w) - 1 <= Len(t) /\ SubSeq(t, i, i + Len(w) - 1) = w

RECURSIVE StrEnd(_, _)
StrEnd(t, i) == IF i > Len(t) THEN 0 ELSE IF t[i] = Quote THEN i ELSE StrEnd(t, i + 1)

RECURSIVE ParseDigits(_, _, _)
ParseDigits(t, i, acc) ==
    IF At(t, i) \in DigitSet THEN ParseDigits(t, i + 1, 10 * acc + DigitVal(t[i]))
    ELSE Parsed(JNum(acc), i)

RECURSIVE ParseValue(_, _), ParseItems(_, _, _), ParseFields(_, _, _, _)
ParseValue(t, i) ==
    CASE Lit(t, i, NullText) -> Parsed(JNull, i + Len(NullText))
      [] Lit(t, i, TrueText) -> Parsed(JBool(TRUE), i + Len(TrueText))
      [] Lit(t, i, FalseText) -> Parsed(JBool(FALSE), i + Len(FalseText))
      [] At(t, i) = Quote ->
            LET e == StrEnd(t, i + 1)
            IN  IF e = 0 THEN Bad ELSE Parsed(JStr(SubSeq(t, i + 1, e - 1)), e + 1)
      [] At(t, i) = "[" ->
            IF At(t, i + 1) = "]" THEN Parsed(JArr(<<>>), i + 2)
            ELSE ParseItems(t, i + 1, <<>>)
      [] At(t, i) = "{" ->
            IF At(t, i + 1) = "}" THEN Parsed(JObj(<<>>, <<>>), i + 2)
            ELSE ParseFields(t, i + 1, <<>>, <<>>)
      [] At(t, i) = "-" ->
            IF At(t, i + 1) \in DigitSet
            THEN LET r == ParseDigits(t, i + 1, 0) IN Parsed(JNum(-r.v.n), r.i)
            ELSE Bad
      [] At(t, i) \in DigitSet -> ParseDigits(t, i, 0)
      [] OTHER -> Bad

ParseItems(t, i, acc) ==
    LET r == ParseValue(t, i)
    IN  IF ~r.ok THEN Bad
        ELSE IF At(t, r.i) = "," THEN ParseItems(t, r.i + 1, Append(acc, r.v))
        ELSE IF At(t, r.i) = "]" THEN Parsed(JArr(Append(acc, r.v)), r.i + 1)
        ELSE Bad

ParseFields(t, i, ks, acc) ==
    LET e == StrEnd(t, i + 1)
        r == ParseValue(t, e + 2)
    IN  IF At(t, i) # Quote \/ e = 0 \/ At(t, e + 1) # ":" \/ ~r.ok THEN Bad
        ELSE IF At(t, r.i) = ","
             THEN ParseFields(t, r.i + 1, Append(ks, SubSeq(t, i + 1, e - 1)), Append(acc, r.v))
        ELSE IF At(t, r.i) = "}"
             THEN Parsed(JObj(Append(ks, SubSeq(t, i + 1, e - 1)), Append(acc, r.v)), r.i + 1)
        ELSE Bad

JSONparse(t) ==
    LET r == ParseValue(t, 1)
    IN  IF r.ok /\ r.i = Len(t) + 1 THEN r ELSE Bad

\* obj[key], undefined for a key the value does not have
Undefined == [t |-> "undefined", n |-> 0, s |-> <<>>, keys |-> <<>>, items |-> <<>>]

Field(obj, key) ==
    IF \E i \in 1..Len(obj.keys) : obj.keys[i] = key
    THEN obj.items[CHOOSE i \in 1..Len(obj.keys) : obj.keys[i] = key]
    ELSE Undefined

\* the characters of the entry files and their UTF-8 bytes
AsciiTable ==
    { <<Quote, 34>>, <<",", 44>>, <<"-", 45>>, <<":", 58>>, <<"[", 91>>, <<"]", 93>>,
      <<"{", 123>>, <<"}", 125>>, <<"A", 65>>, <<"a", 97>>, <<"b", 98>>, <<"c", 99>>,
      <<"d", 100>>, <<"e", 101>>, <<"f", 102>>, <<"i", 105>>, <<"k", 107>>, <<"l", 108>>,
      <<"n", 110>>, <<"p", 112>>, <<"r", 114>>, <<"s", 115>>, <<"t", 116>>, <<"u", 117>>,
      <<"v", 118>>, <<"x", 120>>, <<"y", 121>> }
    \cup {<<DigitChars[d + 1], 48 + d>> : d \in 0..9}

ByteMod == 256
CharCode(ch) == (CHOOSE p \in AsciiTable : p[1] = ch)[2]
CodeChar(b) ==
    IF \E p \in AsciiTable : p[2] = b THEN (CHOOSE p \in AsciiTable : p[2] = b)[1] ELSE "?"

\* Buffer.from(content, 'utf8') and buffer.toString('utf8')
ToUtf8(text) == [i \in 1..Len(text) |-> CharCode(text[i])]
FromUtf8(buffer) == [i \in 1..Len(buffer) |-> CodeChar(buffer[i])]

\* a buffer, or ok = FALSE where the call throws
Thrown == [ok |-> FALSE, b |-> <<>>]
Buf(b) == [ok |-> TRUE, b |-> b]

\* gzip: the two magic bytes, the data as runs (length, byte), the length
\* of the data as trailer
GzMagic == <<31, 139>>

\* the positions at which a run of equal bytes starts
RunStarts(b) ==
    SelectSeq([i \in 1..Len(b) |-> i], LAMBDA i : i = 1 \/ b[i] # b[i - 1])

Deflate(b) ==
    LET starts == RunStarts(b)
    IN  [m \in 1..(2 * Len(starts)) |->
            LET j == (m + 1) \div 2
                next == IF j < Len(starts) THEN starts[j + 1] ELSE Len(b) + 1
            IN  IF m % 2 = 1 THEN next - starts[j] ELSE b[starts[j]]]

\* the runs written out again, half of them at a time
RECURSIVE Inflate(_)
Inflate(z) ==
    IF Len(z) < 2 THEN <<>>
    ELSE IF Len(z) < 4 THEN [i \in 1..z[1] |-> z[2]]
    ELSE LET half == 2 * (Len(z) \div 4)
         IN  Inflate(SubSeq(z, 1, half)) \o Inflate(SubSeq(z, half + 1, Len(z)))

Gzip(b) == GzMagic \o Deflate(b) \o <<Len(b) % ByteMod>>

Gunzip(z) ==
    IF Len(z) < Len(GzMagic) + 1 \/ SubSeq(z, 1, Len(GzMagic)) # GzMagic
       \/ (Len(z) - Len(GzMagic) - 1) % 2 # 0
    THEN Thrown
    ELSE LET b == Inflate(SubSeq(z, Len(GzMagic) + 1, Len(z) - 1))
         IN  IF Len(b) % ByteMod = z[Len(z)] THEN Buf(b) ELSE Thrown

\* the cipher key: a digest of options.encryptionKey
RECURSIVE Digest(_)
Digest(ek) == IF ek = <<>> THEN 7 ELSE (31 * Digest(Tail(ek)) + CharCode(Head(ek))) % ByteMod

\* aes-256-cbc with blocks of one byte: every block is padded input, added
\* to the block before it (the IV for the first) and to the key
IvLen == 1
PadByte == 1

\* the blocks are chained from left to right; the text is enciphered half
\* after half, the second half chained to the last block of the first
RECURSIVE CbcEncrypt(_, _, _)
CbcEncrypt(p, key, prev) ==
    IF p = <<>> THEN <<>>
    ELSE IF Len(p) = 1 THEN <<(p[1] + prev + key) % ByteMod>>
    ELSE LET half == Len(p) \div 2
             left == CbcEncrypt(SubSeq(p, 1, half), key, prev)
         IN  left \o CbcEncrypt(SubSeq(p, half + 1, Len(p)), key, left[half])

CbcDecrypt(c, key, prev) ==
    [i \in 1..Len(c) |-> (c[i] - (IF i = 1 THEN prev ELSE c[i - 1]) - key) % ByteMod]

\* FileCache.encrypt: the IV, then the ciphertext
Encrypt(data, ek, iv) ==
    IF ek = <<>> THEN data
    ELSE <<iv>> \o CbcEncrypt(data \o <<PadByte>>, Digest(ek), iv)

\* FileCache.decrypt: decipher.final() throws on a wrong padding
Decrypt(data, ek) ==
    IF ek = <<>> THEN Buf(data)
    ELSE IF Len(data) < IvLen + 1 THEN Thrown
    ELSE LET p == CbcDecrypt(SubSeq(data, IvLen + 1, Len(data)), Digest(ek), data[1])
         IN  IF p[Len(p)] = PadByte THEN Buf(SubSeq(p, 1, Len(p) - 1)) ELSE Thrown

\* FileCache.writeEntry: the bytes written for value at time t; opts is the
\* record of options, of which compression and encryptionKey matter here
ValueKey == <<"v", "a", "l", "u", "e">>
ExpiryKey == <<"e", "x", "p", "i", "r", "y">>

EntryOf(value, expiry, t) ==
    JObj(<< ValueKey, ExpiryKey,
            <<"l", "a", "s", "t", "A", "c", "c", "e", "s", "s", "e", "d">>,
            <<"c", "r", "e", "a", "t", "e", "d", "A", "t">> >>,
         << value, IF expiry = NoExpiry THEN JNull ELSE JNum(expiry), JNum(t), JNum(t) >>)

WriteBuffer(entry, opts, iv) ==
    LET plain == ToUtf8(Stringify(entry))
        packed == IF opts.compression THEN Gzip(plain) ELSE plain
    IN  IF opts.encryptionKey # <<>> THEN Encrypt(packed, opts.encryptionKey, iv) ELSE packed

\* FileCache.readEntry up to JSON.parse: the text of the entry
ReadText_GunzipFirst(buffer, opts) ==
    LET packed == IF opts.compression THEN Gunzip(buffer) ELSE Buf(buffer)
        plain == IF ~packed.ok THEN Thrown
                 ELSE IF opts.encryptionKey # <<>> THEN Decrypt(packed.b, opts.encryptionKey)
                 ELSE packed
    IN  IF plain.ok THEN [ok |-> TRUE, text |-> FromUtf8(plain.b)]
        ELSE [ok |-> FALSE, text |-> <<>>]

ReadText(buffer, opts) ==
    LET packed == IF opts.encryptionKey # <<>> THEN Decrypt(buffer, opts.encryptionKey)
                  ELSE Buf(buffer)
        plain == IF ~packed.ok THEN Thrown
                 ELSE IF opts.compression THEN Gunzip(packed.b)
                 ELSE packed
    IN  IF plain.ok THEN [ok |-> TRUE, text |-> FromUtf8(plain.b)]
        ELSE [ok |-> FALSE, text |-> <<>>]

\* FileCache.readEntry: the entry, or ok = FALSE for null
ReadBuffer(buffer, opts, t) ==
    LET txt == ReadText(buffer, opts)
        r == IF txt.ok THEN JSONparse(txt.text) ELSE Bad
    IN  IF ~r.ok THEN Bad
        ELSE IF Field(r.v, ExpiryKey).t = "num"
                /\ Field(r.v, ExpiryKey).n < t
        THEN Bad
        ELSE r

-----
(* The specification *)

NoGets == [found |-> 0, missed |-> 0, extra |-> 0]

\* no middleware made
NoMw == [made |-> FALSE]

\* no file written: the options, the value given to set() and its reference,
\* the bytes of the file, the value get() returned and its reference, the
\* number of objects made so far
NoCodec == [compression |-> FALSE, encryptionKey |-> <<>>, given |-> Undefined,
            givenRef |-> 0, bytes |-> <<>>, got |-> Undefined, gotRef |-> 0, heap |-> 1,
            op |-> "init"]

\* the environment in which nothing fails: the directory can be made, no
\* timer is set
EnvInit ==
    /\ raised = FALSE
    /\ unhandled = FALSE
    /\ dirState = "absent"
    /\ initialized = FALSE
    /\ cleanupTimer = FALSE
    /\ cleanupInterval = 0
    /\ timerDue = 0
    /\ gets = NoGets
    /\ codec = NoCodec
    /\ mw = NoMw

Tasks == [key : Keys, overwrite : BOOLEAN]

\* the fields of a new instance
CacheInit ==
    /\ backend \in {"memory", "file"}
    /\ maxSize \in MaxSizes
    /\ defaultTtl \in DefaultTtls
    /\ now = 0
    /\ cache = <<>>
    /\ disk = [k \in Keys |-> NoFile]
    /\ stats = [hits |-> 0, misses |-> 0, lastCleanup |-> 0]
    /\ pending = {}
    /\ last = Idle
    /\ hist = [k \in Keys |-> NoHist]
    /\ lru = <<>>
    /\ steps = 0

\* no other instance, no concurrent call
IdleInit ==
    /\ views = <<>>
    /\ inited = <<>>
    /\ maps = <<>>
    /\ files = <<>>
    /\ dirs = {}
    /\ nsLast = NsIdle
    /\ calls = <<>>
    /\ runs = 0
    /\ slot = NoSlot
    /\ locks = <<>>
    /\ fileLocks = 0
    /\ disposed = FALSE

Init == CacheInit /\ IdleInit /\ EnvInit

\* the caller writes values it has not written before
Fresh(n) == steps + n

Next ==
    \/ \E k \in Keys, ttl \in TtlArgs : MemSet(k, Fresh(1), ttl) /\ UNCHANGED <<nsVars, lockVars, envVars>>
    \/ \E k1, k2 \in Keys, ttl \in TtlArgs :
           k1 # k2 /\ MemSetMany(k1, k2, Fresh(1), Fresh(2), ttl) /\ UNCHANGED <<nsVars, lockVars, envVars>>
    \/ \E k \in Keys : MemGet(k) /\ UNCHANGED <<nsVars, lockVars, envVars>>
    \/ \E k \in Keys, ttl \in TtlArgs : MemGetOrSet(k, Fresh(2), ttl) /\ UNCHANGED <<nsVars, lockVars, envVars>>
    \/ \E k \in Keys : MemHas(k) /\ UNCHANGED <<nsVars, lockVars, envVars>>
    \/ \E k \in Keys : MemDelete(k) /\ UNCHANGED <<nsVars, lockVars, envVars>>
    \/ MemCleanup /\ UNCHANGED <<nsVars, lockVars, envVars>>
    \/ \E k \in Keys, ttl \in TtlArgs : FileSet(k, Fresh(1), ttl) /\ UNCHANGED <<nsVars, lockVars, envVars>>
    \/ \E k1, k2 \in Keys, ttl \in TtlArgs :
           k1 # k2 /\ FileSetMany(k1, k2, Fresh(1), Fresh(2), ttl) /\ UNCHANGED <<nsVars, lockVars, envVars>>
    \/ \E k \in Keys : FileGet(k) /\ UNCHANGED <<nsVars, lockVars, envVars>>
    \/ \E k \in Keys, ttl \in TtlArgs : FileGetOrSet(k, Fresh(2), ttl) /\ UNCHANGED <<nsVars, lockVars, envVars>>
    \/ \E k \in Keys : FileHas(k) /\ UNCHANGED <<nsVars, lockVars, envVars>>
    \/ \E k \in Keys : FileDelete(k) /\ UNCHANGED <<nsVars, lockVars, envVars>>
    \/ FileCleanup /\ UNCHANGED <<nsVars, lockVars, envVars>>
    \/ \E task \in Tasks : FileEnsureCapacity(task) /\ UNCHANGED <<nsVars, lockVars, envVars>>
    \/ \E d \in Deltas : Tick(d) /\ UNCHANGED <<nsVars, lockVars, envVars>>

Spec == Init /\ [][Next]_vars

-----------------------------------------------------------------------------
(* What the contract calls an entry, for either backend *)

\* k is physically stored
Stored(k) == IF backend = "memory" THEN MemHasKey(cache, k) ELSE disk[k] # NoFile

\* the stored entry of k (Stored(k) holds)
Entry(k) == IF backend = "memory" THEN MemEntry(cache, k) ELSE disk[k]

StoredKeys == {k \in Keys : Stored(k)}

\* the ttl, in seconds, that the latest set() of k asked for
TtlOf(h) == IF Len(h.ttl) > 0 THEN h.ttl[1] ELSE defaultTtl

\* the instant the latest set() of k runs out
Deadline(h) == h.at + TtlOf(h) * MsPerSec

IsRead == last.op \in {"get", "has"}

-----------------------------------------------------------------------------
(* Claims *)

\* C1: after set(key, value, ttl) with ttl > 0 at time t, and absent delete,
\* clear or eviction, a get(key) before t + ttl returns value and has(key) is
\* true; after t + ttl get(key) is not-found and has(key) is false.  Both
\* backends.
C1_TtlWindow ==
    (IsRead /\ hist[last.key].live /\ TtlOf(hist[last.key]) > 0) =>
        LET h == hist[last.key]
        IN  /\ now < Deadline(h) =>
                (last.ok /\ (last.op = "get" => last.val = h.value))
            /\ now > Deadline(h) => (~last.ok /\ last.val = NotFound)

\* C1 witness: a get() after the ttl of a live write ran out, answering
\* not-found
C1_Witness ==
    /\ last.op = "get"
    /\ hist[last.key].live
    /\ Len(hist[last.key].ttl) > 0
    /\ TtlOf(hist[last.key]) > 0
    /\ now > Deadline(hist[last.key])
    /\ last.val = NotFound

\* the read of k that this step makes finds an entry whose expiry is set
ReadsDated(k) ==
    /\ last'.op \in {"get", "has"}
    /\ last'.key = k
    /\ Stored(k)
    /\ Entry(k).expiry # NoExpiry

\* C2 as stated: an entry whose expiry is non-null and <= now is absent for
\* get and has at every now >= expiry, the instant now = expiry included, and
\* the read that finds it expired removes it.  Both backends.
C2_Original ==
    [][\A k \in Keys :
         (ReadsDated(k) /\ Entry(k).expiry <= now) => (~last'.ok /\ ~Stored(k)')]_vars

\* C2 amended: an entry whose expiry is non-null and < now is absent for get
\* and has, and the read that finds it expired removes it; at the instant
\* now = expiry the entry is still served and stays stored.  Both backends.
C2_ExpiredIsAbsent ==
    [][\A k \in Keys :
         /\ (ReadsDated(k) /\ Entry(k).expiry < now) =>
                (~last'.ok /\ last'.val = NotFound /\ ~Stored(k)')
         /\ (ReadsDated(k) /\ Entry(k).expiry = now) =>
                (last'.ok /\ Stored(k)'
                 /\ (last'.op = "get" => last'.val = Entry(k).value))]_vars

\* C2 witness: a read at a time past the expiry of the entry it asks for,
\* which the read has removed
C2_Witness ==
    /\ IsRead
    /\ hist[last.key].live
    /\ TtlOf(hist[last.key]) > 0
    /\ now > Deadline(hist[last.key])
    /\ ~last.ok
    /\ ~Stored(last.key)
    /\ last.op = "has"

\* the expiry the contract gives a write made at time t with argument ttl
ContractExpiry(ttl, t) ==
    IF ttl = <<>>
    THEN (IF defaultTtl <= 0 THEN NoExpiry ELSE t + MsPerSec * defaultTtl)
    ELSE (IF ttl[1] <= 0 THEN NoExpiry ELSE t + MsPerSec * ttl[1])

\* C3: a write (set, setMany, getOrSet) with ttl > 0 gets expiry now + ttl,
\* one with ttl <= 0 gets no expiry whatever the default TTL is, and an
\* omitted ttl follows the same rule on the default TTL; an entry written
\* without expiry stays stored until it is deleted or evicted and is served by
\* every read.  Both backends.
C3_ExpiryRule ==
    \A k \in Keys :
        hist[k].live =>
            LET want == ContractExpiry(hist[k].ttl, hist[k].at)
            IN  /\ Stored(k) => Entry(k).expiry = want
                /\ want = NoExpiry => Stored(k)
                /\ (want = NoExpiry /\ IsRead /\ last.key = k) => last.ok

\* C3 witness: an entry written with an explicit ttl <= 0 under a positive
\* default TTL is read after the default TTL has run out, and is served
C3_Witness ==
    /\ last.op = "get"
    /\ last.ok
    /\ hist[last.key].live
    /\ hist[last.key].ttl = <<0>>
    /\ defaultTtl > 0
    /\ now > hist[last.key].at + defaultTtl * MsPerSec

\* the place of k in the sequence l
Pos(l, k) == CHOOSE i \in 1..Len(l) : l[i] = k

\* this step is a set() of a key that MemoryCache does not store
MemSetsNew == backend = "memory" /\ last'.op = "set" /\ ~MemHasKey(cache, last'.key)

\* C4 as stated: when MemoryCache holds maxSize entries, a key whose latest
\* get() hit came after the last get/set of every other stored key is not the
\* entry that the next set() of a new key removes; the least recently used
\* key is, also when several calls read the same millisecond.
C4_Claim ==
    [][(MemSetsNew /\ Len(cache) = maxSize /\ Len(cache) >= 2) =>
           /\ hist[lru[Len(lru)]].kind = "get" => lru[Len(lru)] \notin last'.evicted
           /\ last'.evicted = {lru[1]}]_vars

\* C5: in MemoryCache, set() of a key that is not stored, with at least
\* maxSize entries stored, removes exactly one entry, one whose lastAccessed is
\* the minimum over the stored entries, and then inserts; with fewer than
\* maxSize entries stored set() removes nothing.
C5_EvictsOneOldest ==
    [][(backend = "memory" /\ last'.op = "set") =>
           /\ (~MemHasKey(cache, last'.key) /\ Len(cache) >= maxSize) =>
                  \E victim \in MemKeys(cache) :
                      /\ MemKeys(cache') = (MemKeys(cache) \ {victim}) \cup {last'.key}
                      /\ \A j \in MemKeys(cache) :
                             MemEntry(cache, victim).lastAccessed
                                 <= MemEntry(cache, j).lastAccessed
           /\ Len(cache) < maxSize =>
                  MemKeys(cache') = MemKeys(cache) \cup {last'.key}]_vars

\* C5 witness: a set() of a new key into a MemoryCache that held two
\* entries, its maxSize, has evicted one of them
C5_Witness ==
    /\ backend = "memory"
    /\ last.op = "set"
    /\ ~last.ok
    /\ maxSize = 2
    /\ Cardinality(last.evicted) = 1
    /\ Len(cache) = 2

\* has() leaves lastAccessed and hitCount of every entry as they were
HasFrame ==
    last'.op = "has" =>
        \A j \in Keys :
            Stored(j)' =>
                /\ Stored(j)
                /\ Entry(j)'.lastAccessed = Entry(j).lastAccessed
                /\ Entry(j)'.hitCount = Entry(j).hitCount

\* C6 as stated: has() changes no entry's lastAccessed or hitCount, in
\* either backend; so in MemoryCache a key not read by get() since it was
\* written is evicted ahead of a key that get() read later.
C6_Claim ==
    [][/\ HasFrame
       /\ (MemSetsNew /\ last'.evicted # {}) =>
              \A a, b \in MemKeys(cache) :
                  (/\ hist[a].kind = "set"
                   /\ hist[b].kind = "get"
                   /\ Pos(lru, a) < Pos(lru, b)) =>
                      ~(b \in last'.evicted /\ a \notin last'.evicted)]_vars

\* C7: in MemoryCache a get() hit sets the entry's lastAccessed to the
\* current time and adds 1 to its hitCount, changes nothing else of it and no
\* other entry, and adds 1 to hits; a get() miss changes no live entry and
\* adds 1 to misses.
C7_GetBookkeeping ==
    [][(backend = "memory" /\ last'.op = "get") =>
           LET k == last'.key
           IN  IF last'.ok
               THEN /\ MemHasKey(cache, k)
                    /\ MemKeys(cache') = MemKeys(cache)
                    /\ MemEntry(cache', k) =
                           [MemEntry(cache, k) EXCEPT
                               !.lastAccessed = now,
                               !.hitCount = MemEntry(cache, k).hitCount + 1]
                    /\ \A j \in MemKeys(cache) \ {k} :
                           MemEntry(cache', j) = MemEntry(cache, j)
                    /\ stats'.hits = stats.hits + 1
                    /\ stats'.misses = stats.misses
               ELSE /\ \A j \in MemKeys(cache) :
                           ~Expired(MemEntry(cache, j), now) =>
                               /\ MemHasKey(cache', j)
                               /\ MemEntry(cache', j) = MemEntry(cache, j)
                    /\ MemKeys(cache') \subseteq MemKeys(cache)
                    /\ stats'.misses = stats.misses + 1
                    /\ stats'.hits = stats.hits]_vars

\* C7 witness: a second get() hit on an entry of a MemoryCache that holds
\* another entry too
C7_Witness ==
    /\ backend = "memory"
    /\ last.op = "get"
    /\ last.ok
    /\ MemEntry(cache, last.key).hitCount = 2
    /\ stats.hits = 2
    /\ Len(cache) = 2

\* C8: set() of a key that is already stored replaces the whole entry:
\* createdAt and lastAccessed are the current time, the hit count is zero, the
\* value is the one just written and the expiry is the one this call's ttl
\* gives; nothing of the entry overwritten is left.  Both backends.
C8_OverwriteIsFresh ==
    (last.op = "set" /\ last.ok) =>
        /\ Stored(last.key)
        /\ Entry(last.key).createdAt = now
        /\ Entry(last.key).lastAccessed = now
        /\ HitCountOf(Entry(last.key)) = 0
        /\ Entry(last.key).value = steps
        /\ Entry(last.key).expiry = ContractExpiry(hist[last.key].ttl, now)

\* C8 witness: an entry that was read and is older than the clock is
\* overwritten with a ttl
C8_Witness ==
    /\ last.op = "set"
    /\ last.ok
    /\ now > 0
    /\ stats.hits > 0
    /\ Entry(last.key).expiry # NoExpiry

\* C9 as stated: set() of a key that is already stored evicts nothing: no
\* other stored, unexpired key is removed by the overwrite or by the
\* maintenance it starts, also with the store at or above maxSize.  Both
\* backends.
C9_Claim ==
    (last.op \in {"set", "ensureCapacity"} /\ last.ok) => last.evicted \ {last.key} = {}

\* C10 as stated: delete(key) returns true exactly when has(key) would have
\* returned true just before, that is when the entry was stored and not
\* expired; afterwards the key is absent and every other key is as it was.
\* Both backends.
C10_Claim ==
    [][\A k \in Keys :
           (last'.op = "delete" /\ last'.key = k) =>
               /\ last'.ok <=> (Stored(k) /\ ~Expired(Entry(k), now))
               /\ ~Stored(k)'
               /\ \A j \in Keys \ {k} :
                      /\ Stored(j)' <=> Stored(j)
                      /\ Stored(j) => Entry(j)' = Entry(j)]_vars

-----------------------------------------------------------------------------
(* getOrSet and the batch calls of one instance *)

\* C13: getOrSet(key, factory) with no entry for key runs the factory once,
\* stores what it made and returns it; a later getOrSet(key, factory2), before
\* the entry expires or is removed, returns the stored value and does not run
\* factory2.  Both backends.  (last.ok false: the factory ran; the value it
\* makes is Fresh(2).)
C13_GetOrSetOnce ==
    [][\A k \in Keys :
           (last'.op = "getOrSet" /\ last'.key = k) =>
               /\ ~Stored(k) =>
                      /\ ~last'.ok
                      /\ last'.val = Fresh(2)
                      /\ Stored(k)'
                      /\ Entry(k)'.value = Fresh(2)
               /\ (Stored(k) /\ (Entry(k).expiry = NoExpiry \/ now < Entry(k).expiry)) =>
                      /\ last'.ok
                      /\ last'.val = Entry(k).value
                      /\ Stored(k)'
                      /\ Entry(k)'.value = Entry(k).value]_vars

\* C13 witness: the second of two getOrSet() calls for one key returns what
\* the factory of the first made
C13_Witness ==
    /\ last.op = "getOrSet"
    /\ last.ok
    /\ steps = 3
    /\ stats.misses = 1
    /\ stats.hits = 1
    /\ last.val = 2
    /\ Stored(last.key)
    /\ Entry(last.key).value = 2

\* get(): the counters after a call that returned r
StatsGet(st, r) ==
    IF r = NotFound THEN [st EXCEPT !.misses = @ + 1] ELSE [st EXCEPT !.hits = @ + 1]

\* history: a get() of k that returned r
HistGet(h, k, r) == IF r = NotFound THEN h ELSE [h EXCEPT ![k].kind = "get"]

LruGet(l, k, r) == IF r = NotFound THEN Without(l, {k}) ELSE Touch(l, k)

\* a batch call: the keys listed, the list returned (getMany) or the number
\* returned (deleteMany)
BatchCall(op, ks, rs, n) ==
    [op |-> op, key |-> ks[Len(ks)], val |-> n, ok |-> TRUE, evicted |-> {},
     keys |-> ks, vals |-> rs]

\* filter(Boolean).length
CountTrue(r1, r2) == (IF r1 THEN 1 ELSE 0) + (IF r2 THEN 1 ELSE 0)

\* getMany([k1, k2]): Promise.all over get() calls, each of which runs to its
\* end when it is made, in the order of the keys; val is the list returned
MemGetMany(k1, k2) ==
    /\ backend = "memory"
    /\ Step
    /\ LET r1 == MemGetResult(cache, k1, now)
           c1 == MemGetCache(cache, k1, now)
           r2 == MemGetResult(c1, k2, now)
       IN  /\ cache' = MemGetCache(c1, k2, now)
           /\ stats' = StatsGet(StatsGet(stats, r1), r2)
           /\ hist' = HistGet(HistGet(hist, k1, r1), k2, r2)
           /\ lru' = LruGet(LruGet(lru, k1, r1), k2, r2)
           /\ last' = BatchCall("getMany", <<k1, k2>>, <<r1, r2>>, NotFound)
    /\ UNCHANGED <<maxSize, backend, defaultTtl, now, disk, pending>>

\* deleteMany([k1, k2]): Promise.all over delete() calls; val is the number
\* of them that returned true
MemDeleteMany(k1, k2) ==
    /\ backend = "memory"
    /\ Step
    /\ LET r1 == MemDeleteResult(cache, k1)
           c1 == MemRemove(cache, {k1})
           r2 == MemDeleteResult(c1, k2)
       IN  /\ cache' = MemRemove(c1, {k2})
           /\ last' = BatchCall("deleteMany", <<k1, k2>>, <<r1, r2>>, CountTrue(r1, r2))
    /\ hist' = Forget(hist, {k1, k2})
    /\ lru' = Without(lru, {k1, k2})
    /\ UNCHANGED <<maxSize, backend, defaultTtl, now, disk, stats, pending>>

\* getMany([k1, k2]): the reads of FileCache run interleaved; a read changes
\* no file that the other read looks at, unless both read the same key
FileGetMany(k1, k2) ==
    /\ backend = "file"
    /\ Step
    /\ LET r1 == FileGetResult(disk, k1, now)
           d1 == FileGetDisk(disk, k1, now)
           r2 == FileGetResult(d1, k2, now)
       IN  /\ disk' = FileGetDisk(d1, k2, now)
           /\ stats' = StatsGet(StatsGet(stats, r1), r2)
           /\ hist' = HistGet(HistGet(hist, k1, r1), k2, r2)
           /\ lru' = LruGet(LruGet(lru, k1, r1), k2, r2)
           /\ last' = BatchCall("getMany", <<k1, k2>>, <<r1, r2>>, NotFound)
    /\ UNCHANGED <<maxSize, backend, defaultTtl, now, cache, pending>>

\* deleteMany([k1, k2]): of two unlinks of one file one succeeds
FileDeleteMany(k1, k2) ==
    /\ backend = "file"
    /\ Step
    /\ LET r1 == FileDeleteResult(disk, k1)
           d1 == FileRemove(disk, {k1})
           r2 == FileDeleteResult(d1, k2)
       IN  /\ disk' = FileRemove(d1, {k2})
           /\ last' = BatchCall("deleteMany", <<k1, k2>>, <<r1, r2>>, CountTrue(r1, r2))
    /\ hist' = Forget(hist, {k1, k2})
    /\ lru' = Without(lru, {k1, k2})
    /\ UNCHANGED <<maxSize, backend, defaultTtl, now, cache, stats, pending>>

\* one instance used through the batch calls
BatchNext ==
    \/ \E k \in Keys, ttl \in TtlArgs : MemSet(k, Fresh(1), ttl) /\ UNCHANGED <<nsVars, lockVars, envVars>>
    \/ \E k1, k2 \in Keys, ttl \in TtlArgs :
           k1 # k2 /\ MemSetMany(k1, k2, Fresh(1), Fresh(2), ttl) /\ UNCHANGED <<nsVars, lockVars, envVars>>
    \/ \E k1, k2 \in Keys : MemGetMany(k1, k2) /\ UNCHANGED <<nsVars, lockVars, envVars>>
    \/ \E k1, k2 \in Keys : MemDeleteMany(k1, k2) /\ UNCHANGED <<nsVars, lockVars, envVars>>
    \/ \E k \in Keys, ttl \in TtlArgs : FileSet(k, Fresh(1), ttl) /\ UNCHANGED <<nsVars, lockVars, envVars>>
    \/ \E k1, k2 \in Keys, ttl \in TtlArgs :
           k1 # k2 /\ FileSetMany(k1, k2, Fresh(1), Fresh(2), ttl) /\ UNCHANGED <<nsVars, lockVars, envVars>>
    \/ \E k1, k2 \in Keys : FileGetMany(k1, k2) /\ UNCHANGED <<nsVars, lockVars, envVars>>
    \/ \E k1, k2 \in Keys : FileDeleteMany(k1, k2) /\ UNCHANGED <<nsVars, lockVars, envVars>>
    \/ \E task \in Tasks : FileEnsureCapacity(task) /\ UNCHANGED <<nsVars, lockVars, envVars>>
    \/ \E d \in Deltas : Tick(d) /\ UNCHANGED <<nsVars, lockVars, envVars>>

BatchSpec == Init /\ [][BatchNext]_vars

\* what get(k) would return now
GetResult(k) ==
    IF backend = "memory" THEN MemGetResult(cache, k, now) ELSE FileGetResult(disk, k, now)

\* has(k) would return true now
Present(k) == Stored(k) /\ ~Expired(Entry(k), now)

SetManyOf(k1, k2, ttl) ==
    \/ MemSetMany(k1, k2, Fresh(1), Fresh(2), ttl)
    \/ FileSetMany(k1, k2, Fresh(1), Fresh(2), ttl)

\* C15 as stated: the batch calls are the single-key calls by position, in
\* both backends: getMany(keys) returns a list as long as keys whose i-th
\* element is what get(keys[i]) returns; after setMany(entries) every listed
\* key holds its value; deleteMany(keys) returns how many of the listed keys
\* were present before the call, a key listed twice counting once, leaves the
\* listed keys absent and the other keys as they were.
C15_Claim ==
    [][/\ last'.op = "getMany" =>
              /\ Len(last'.vals) = Len(last'.keys)
              /\ \A i \in 1..Len(last'.keys) :
                     \A k \in Keys : last'.keys[i] = k => last'.vals[i] = GetResult(k)
       /\ \A k1, k2 \in Keys, ttl \in TtlArgs :
              (k1 # k2 /\ SetManyOf(k1, k2, ttl)) =>
                  /\ GetResult(k1)' = Fresh(1)
                  /\ GetResult(k2)' = Fresh(2)
       /\ last'.op = "deleteMany" =>
              /\ last'.val =
                     Cardinality({k \in Keys :
                                     /\ \E i \in 1..Len(last'.keys) : last'.keys[i] = k
                                     /\ Present(k)})
              /\ \A k \in Keys :
                     IF \E i \in 1..Len(last'.keys) : last'.keys[i] = k
                     THEN ~Stored(k)'
                     ELSE /\ Stored(k)' <=> Stored(k)
                          /\ Stored(k) => Entry(k)' = Entry(k)]_vars

-----------------------------------------------------------------------------
(* FileCache over a directory whose files something else may overwrite *)

\* the file of k is overwritten with bytes that are not an encoded entry
FileCorrupt(k) ==
    /\ backend = "file"
    /\ Step
    /\ disk' = [disk EXCEPT ![k] = Garbage]
    /\ hist' = Forget(hist, {k})
    /\ lru' = Without(lru, {k})
    /\ last' = Call("corrupt", k, NotFound, disk[k] # NoFile, {})
    /\ UNCHANGED <<maxSize, backend, defaultTtl, now, cache, stats, pending>>

CorruptInit == Init /\ backend = "file"

CorruptNext ==
    \/ \E k \in Keys, ttl \in TtlArgs : FileSet(k, Fresh(1), ttl) /\ UNCHANGED <<nsVars, lockVars, envVars>>
    \/ \E k \in Keys : FileGet(k) /\ UNCHANGED <<nsVars, lockVars, envVars>>
    \/ \E k \in Keys : FileHas(k) /\ UNCHANGED <<nsVars, lockVars, envVars>>
    \/ \E k \in Keys : FileDelete(k) /\ UNCHANGED <<nsVars, lockVars, envVars>>
    \/ \E k \in Keys : FileCorrupt(k) /\ UNCHANGED <<nsVars, lockVars, envVars>>
    \/ FileCleanup /\ UNCHANGED <<nsVars, lockVars, envVars>>
    \/ \E task \in Tasks : FileEnsureCapacity(task) /\ UNCHANGED <<nsVars, lockVars, envVars>>
    \/ \E d \in Deltas : Tick(d) /\ UNCHANGED <<nsVars, lockVars, envVars>>

CorruptSpec == CorruptInit /\ [][CorruptNext]_vars

\* the file of k is missing or does not decode
Undecodable(k) == disk[k] = NoFile \/ disk[k] = Garbage

\* C18: in FileCache, when the file of a key is missing or does not decode,
\* get(key) returns not-found and has(key) returns false, without raising; a
\* set(key, v) made then replaces the file, and the get(key) that follows it
\* (before any eviction for capacity) returns v.
C18_CorruptIsMiss ==
    [][\A k \in Keys :
           (last'.key = k /\ Undecodable(k)) =>
               /\ last'.op \in {"get", "has"} => (~last'.ok /\ last'.val = NotFound)
               /\ last'.op = "set" =>
                      /\ FileReadOk(disk', k, now')
                      /\ FileGetResult(disk', k, now') = Fresh(1)]_vars

\* C18 witness: has() answered false for a key whose file holds bytes that
\* do not decode
C18_Witness ==
    /\ backend = "file"
    /\ last.op = "has"
    /\ ~last.ok
    /\ disk[last.key] = Garbage

C20_CleanupRestoresBound ==
    [][last'.op = "cleanup" =>
           /\ \A k \in FileStored(disk') :
                  /\ disk'[k] # Garbage
                  /\ ~Expired(disk'[k], now')
                  /\ disk'[k] = disk[k]
           /\ Cardinality(FileStored(disk')) <= maxSize
           /\ last'.evicted \subseteq {k \in Keys : FileReadOk(disk, k, now)}
           /\ FileStored(disk) \ FileStored(disk') =
                  last'.evicted \cup {k \in FileStored(disk) : ~FileReadOk(disk, k, now)}
           /\ \A x \in last'.evicted, y \in FileStored(disk') :
                  disk[x].lastAccessed <= disk[y].lastAccessed]_vars

\* C20 witness: a cleanup() has removed an entry for capacity, one older
\* than the entry it kept
C20_Witness ==
    /\ backend = "file"
    /\ last.op = "cleanup"
    /\ last.evicted # {}
    /\ Cardinality(FileStored(disk)) = maxSize
    /\ \E k \in FileStored(disk) : disk[k].lastAccessed > 0

-----------------------------------------------------------------------------
(* Namespaces: several instances of one backend over one baseDir.          *)
(*                                                                         *)
(* withNamespace() returns a new instance built from the options of the    *)
(* one it is called on, with another namespace.  A MemoryCache instance    *)
(* has a Map of its own; a FileCache instance has no storage of its own,   *)
(* it reads and writes the directory path.join(baseDir, namespace).  The   *)
(* clock stands still here and maxSize is the default 1000, so nothing     *)
(* expires and nothing is evicted.                                         *)

MaxViews == 3

\* namespaces the application uses; "a/b" names a directory inside that of "a"
NsNames == {"a", "a/b", "b"}

\* path.join(baseDir, namespace), as the directories below baseDir
Segments(name) ==
    CASE name = "a" -> <<"a">>
      [] name = "a/b" -> <<"a", "b">>
      [] name = "b" -> <<"b">>

\* the directory of n is the directory of m or lies inside it
Under(n, m) ==
    /\ Len(Segments(m)) <= Len(Segments(n))
    /\ SubSeq(Segments(n), 1, Len(Segments(m))) = Segments(m)

Paths == NsNames \X Keys

NoMap == [p \in Paths |-> NotFound]

View(v) == views[v]

\* getNamespacedKey, getFilePath: where instance v keeps key k
NsKey(v, k) == <<View(v), k>>

\* initialize(): the namespace directory is made, with its parents, unless the
\* instance has done so before
NsInitDirs(v) ==
    IF inited[v] THEN dirs ELSE dirs \cup {n \in NsNames : Under(View(v), n)}

\* what get(k) returns through instance v
NsGetResult(v, k) ==
    IF backend = "memory" THEN maps[v][NsKey(v, k)] ELSE files[NsKey(v, k)]

\* what has(k) returns through instance v
NsHasResult(v, k) == NsGetResult(v, k) # NotFound

\* fs.rm(dir, {recursive: true, force: true})
NsRm(f, name) == [p \in Paths |-> IF Under(p[1], name) THEN NotFound ELSE f[p]]

\* MemoryCache.clear: the keys of the Map that start with "namespace:"
NsMapClear(m, name) == [p \in Paths |-> IF p[1] = name THEN NotFound ELSE m[p]]

NsViews == 1..Len(views)

NsStep(op, v, k, val) ==
    /\ Step
    /\ nsLast' = NsCall(op, v, k, val)
    /\ UNCHANGED <<maxSize, backend, defaultTtl, now, cache, disk, stats, pending,
                   last, hist, lru>>
    /\ UNCHANGED <<lockVars, envVars>>

\* initialize() of a FileCache call that writes nothing else
NsTouch(v) ==
    IF backend = "memory"
    THEN UNCHANGED <<inited, dirs>>
    ELSE /\ inited' = [inited EXCEPT ![v] = TRUE]
         /\ dirs' = NsInitDirs(v)

NsWithNamespace(v, name) ==
    /\ v \in NsViews
    /\ Len(views) < MaxViews
    /\ views' = Append(views, name)
    /\ inited' = Append(inited, FALSE)
    /\ maps' = Append(maps, NoMap)
    /\ NsStep("withNamespace", Len(views) + 1, NoKey, NotFound)
    /\ UNCHANGED <<files, dirs>>

\* set(): FileCache writes the file if the directory is there, and throws if
\* it is not (val is NotFound then)
NsSet(v, k, val) ==
    /\ v \in NsViews
    /\ IF backend = "memory"
       THEN /\ maps' = [maps EXCEPT ![v][NsKey(v, k)] = val]
            /\ NsStep("set", v, k, val)
            /\ UNCHANGED <<inited, dirs, files>>
       ELSE /\ NsTouch(v)
            /\ IF View(v) \in NsInitDirs(v)
               THEN /\ files' = [files EXCEPT ![NsKey(v, k)] = val]
                    /\ NsStep("set", v, k, val)
               ELSE /\ UNCHANGED files
                    /\ NsStep("set", v, k, NotFound)
            /\ UNCHANGED maps
    /\ UNCHANGED views

NsGet(v, k) ==
    /\ v \in NsViews
    /\ NsTouch(v)
    /\ NsStep("get", v, k, NsGetResult(v, k))
    /\ UNCHANGED <<views, maps, files>>

NsDelete(v, k) ==
    /\ v \in NsViews
    /\ NsTouch(v)
    /\ IF backend = "memory"
       THEN /\ maps' = [maps EXCEPT ![v][NsKey(v, k)] = NotFound]
            /\ UNCHANGED files
       ELSE /\ files' = [files EXCEPT ![NsKey(v, k)] = NotFound]
            /\ UNCHANGED maps
    /\ NsStep("delete", v, k, NsGetResult(v, k))
    /\ UNCHANGED views

\* clear(): FileCache removes the namespace directory with all that is in it
\* and makes it again
NsClear(v) ==
    /\ v \in NsViews
    /\ IF backend = "memory"
       THEN /\ maps' = [maps EXCEPT ![v] = NsMapClear(maps[v], View(v))]
            /\ UNCHANGED <<inited, dirs, files>>
       ELSE /\ inited' = [inited EXCEPT ![v] = TRUE]
            /\ files' = NsRm(files, View(v))
            /\ dirs' = {n \in NsInitDirs(v) : ~Under(n, View(v))}
                           \cup {n \in NsNames : Under(View(v), n)}
            /\ UNCHANGED maps
    /\ NsStep("clear", v, NoKey, NotFound)
    /\ UNCHANGED views

NsInit ==
    /\ backend \in {"memory", "file"}
    /\ maxSize = 1000
    /\ defaultTtl = 3600
    /\ now = 0
    /\ cache = <<>>
    /\ disk = [k \in Keys |-> NoFile]
    /\ stats = [hits |-> 0, misses |-> 0, lastCleanup |-> 0]
    /\ pending = {}
    /\ last = Idle
    /\ hist = [k \in Keys |-> NoHist]
    /\ lru = <<>>
    /\ steps = 0
    /\ \E name \in NsNames : views = <<name>>
    /\ inited = <<FALSE>>
    /\ maps = <<NoMap>>
    /\ files = NoMap
    /\ dirs = {}
    /\ nsLast = NsIdle
    /\ calls = <<>>
    /\ runs = 0
    /\ slot = NoSlot
    /\ locks = <<>>
    /\ fileLocks = 0
    /\ disposed = FALSE
    /\ EnvInit

NsNext ==
    \/ \E v \in 1..MaxViews, name \in NsNames : NsWithNamespace(v, name)
    \/ \E v \in 1..MaxViews, k \in Keys : NsSet(v, k, Fresh(1))
    \/ \E v \in 1..MaxViews, k \in Keys : NsGet(v, k)
    \/ \E v \in 1..MaxViews, k \in Keys : NsDelete(v, k)
    \/ \E v \in 1..MaxViews : NsClear(v)

NsSpec == NsInit /\ [][NsNext]_vars

\* instance v made this step, a call of one of the kinds ops
NsDid(v, ops) == nsLast'.view = v /\ nsLast'.op \in ops

\* C11 as stated: clear() through an instance leaves no key present through
\* it, and changes what get and has return through no instance of another
\* namespace name, siblings and parent included.  Both backends.
C11_Claim ==
    [][\A v \in NsViews :
           NsDid(v, {"clear"}) =>
               /\ \A k \in Keys : ~NsHasResult(v, k)'
               /\ \A w \in NsViews, k \in Keys :
                      View(w) # View(v) => NsGetResult(w, k)' = NsGetResult(w, k)]_vars

\* C12 as stated: the instance withNamespace() returns shares no storage with
\* the one it was called on nor with the result of another call: a set, delete
\* or clear through one never changes what get and has return through
\* another, whatever the namespace names, equal ones included.  Both backends.
C12_Claim ==
    [][\A v \in NsViews :
           NsDid(v, {"set", "delete", "clear"}) =>
               \A w \in NsViews \ {v}, k \in Keys :
                   NsGetResult(w, k)' = NsGetResult(w, k)]_vars

-----------------------------------------------------------------------------
(* Concurrent calls: NumCallers callers invoke getOrSet(key, factory) for  *)
(* one key on one instance and run interleaved on the event loop.          *)
(*                                                                         *)
(* A step is what runs between two suspensions.  MemoryCache.get and       *)
(* MemoryCache.set do not suspend.  In FileCache the read of the file, the *)
(* wait for the lock and the write of the file suspend; fs.writeFile       *)
(* opens the file truncating it and fills it later, so a read in between   *)
(* finds bytes that do not decode, and two writes in flight at once leave  *)
(* the bytes of either or a mix of both.  The continuations of a resolved  *)
(* promise run before any timer or I/O callback (Quiet).  The entry is     *)
(* written with the default ttl of one hour and is the only file of the    *)
(* directory, so it neither expires nor is evicted here; get() persists    *)
(* no recency (the hit count it reads is never 10).                        *)

NumCallers == 3
MaxTicks == 2

\* options.lockTimeout, milliseconds
LockTimeout == 5000

Callers == 1..NumCallers

NoLock == [made |-> FALSE, at |-> 0, resolved |-> FALSE, armed |-> FALSE, fired |-> FALSE]

\* acquireLock: the promise and the timer of a new lock
NewLock(t) == [made |-> TRUE, at |-> t, resolved |-> FALSE, armed |-> TRUE, fired |-> FALSE]

NewCall == [pc |-> "get", made |-> NotFound, ret |-> NotFound, waits |-> 0, dirty |-> FALSE]

\* calls suspended in "await existingLock.promise" whose promise is resolved
Woken == {c \in Callers : calls[c].pc = "wait" /\ locks[calls[c].waits].resolved}

\* no continuation of a resolved promise is waiting to run
Quiet == Woken = {}

\* calls between the return of acquireLock and their releaseLock()
Holders == {c \in Callers : calls[c].pc \in {"locked", "writing"}}

\* calls inside fs.writeFile
Writers == {c \in Callers : calls[c].pc = "writing"}

\* timers whose time has come
DueTimers == {l \in Callers : locks[l].armed /\ now >= locks[l].at + LockTimeout}

GosFrame ==
    UNCHANGED <<maxSize, backend, defaultTtl, cache, disk, stats, pending, last, hist,
                lru, steps, nsVars, envVars>>

\* getOrSet: const cachedValue = await this.get(key)
GosGet(c) ==
    /\ Quiet
    /\ calls[c].pc = "get"
    /\ calls' = IF slot.kind = "entry"
                THEN [calls EXCEPT ![c].pc = "done", ![c].ret = slot.value]
                ELSE [calls EXCEPT ![c].pc = "factory"]
    /\ UNCHANGED <<now, runs, slot, locks, fileLocks, disposed>>
    /\ GosFrame

\* getOrSet: const value = await factory()
GosFactory(c) ==
    /\ Quiet
    /\ calls[c].pc = "factory"
    /\ runs' = runs + 1
    /\ calls' = [calls EXCEPT ![c].pc = "set", ![c].made = runs + 1]
    /\ UNCHANGED <<now, slot, locks, fileLocks, disposed>>
    /\ GosFrame

\* getOrSet: await this.set(key, value, ttl); return value -- MemoryCache
GosSetMem(c) ==
    /\ backend = "memory"
    /\ Quiet
    /\ calls[c].pc = "set"
    /\ slot' = Bytes(calls[c].made)
    /\ calls' = [calls EXCEPT ![c].pc = "done", ![c].ret = calls[c].made]
    /\ UNCHANGED <<now, runs, locks, fileLocks, disposed>>
    /\ GosFrame

\* acquireLock, from "let releaseLock" on: a new lock is put in the Map,
\* whatever the Map holds
TakeLock(c) ==
    /\ locks' = [locks EXCEPT ![c] = NewLock(now)]
    /\ fileLocks' = c
    /\ calls' = [calls EXCEPT ![c].pc = "locked"]

\* set -> writeEntry -> acquireLock, up to its await
AcquireLock(c) ==
    /\ backend = "file"
    /\ Quiet
    /\ calls[c].pc = "set"
    /\ IF fileLocks # 0
       THEN /\ calls' = [calls EXCEPT ![c].pc = "wait", ![c].waits = fileLocks]
            /\ UNCHANGED <<locks, fileLocks>>
       ELSE TakeLock(c)
    /\ UNCHANGED <<now, runs, slot, disposed>>
    /\ GosFrame

\* acquireLock, after "await existingLock.promise"
WakeLock(c) ==
    /\ c \in Woken
    /\ TakeLock(c)
    /\ UNCHANGED <<now, runs, slot, disposed>>
    /\ GosFrame

\* writeEntry: fs.writeFile opens the file
WriteOpen(c) ==
    /\ Quiet
    /\ calls[c].pc = "locked"
    /\ slot' = Unreadable
    /\ calls' = [d \in Callers |->
                    IF d = c
                    THEN [calls[d] EXCEPT !.pc = "writing", !.dirty = Writers # {}]
                    ELSE IF d \in Writers
                         THEN [calls[d] EXCEPT !.dirty = TRUE]
                         ELSE calls[d]]
    /\ UNCHANGED <<now, runs, locks, fileLocks, disposed>>
    /\ GosFrame

\* writeEntry: fs.writeFile is done, releaseLock(); set and getOrSet return
WriteDone(c) ==
    /\ Quiet
    /\ calls[c].pc = "writing"
    /\ slot' \in (IF calls[c].dirty
                  THEN {Bytes(calls[c].made), Unreadable}
                  ELSE {Bytes(calls[c].made)})
    /\ locks' = [locks EXCEPT ![c].armed = FALSE, ![c].resolved = TRUE]
    /\ fileLocks' = 0
    /\ calls' = [calls EXCEPT ![c].pc = "done", ![c].ret = calls[c].made]
    /\ UNCHANGED <<now, runs, disposed>>
    /\ GosFrame

\* acquireLock: the setTimeout callback of lock l
LockTimer(l) ==
    /\ Quiet
    /\ l \in DueTimers
    /\ IF fileLocks # 0
       THEN /\ fileLocks' = 0
            /\ locks' = [locks EXCEPT ![l].armed = FALSE, ![l].resolved = TRUE,
                                      ![l].fired = TRUE]
       ELSE /\ locks' = [locks EXCEPT ![l].armed = FALSE]
            /\ UNCHANGED fileLocks
    /\ UNCHANGED <<now, calls, runs, slot, disposed>>
    /\ GosFrame

\* dispose(): the timers are cleared and the Map is emptied
Dispose ==
    /\ Quiet
    /\ ~disposed
    /\ disposed' = TRUE
    /\ locks' = [l \in Callers |-> [locks[l] EXCEPT !.armed = FALSE]]
    /\ fileLocks' = 0
    /\ UNCHANGED <<now, calls, runs, slot>>
    /\ GosFrame

\* time passes while calls are suspended; a timer runs when its time has come
GosTick ==
    /\ Quiet
    /\ DueTimers = {}
    /\ \E c \in Callers : calls[c].pc # "done"
    /\ now < MaxTicks * LockTimeout
    /\ now' = now + LockTimeout
    /\ UNCHANGED <<calls, runs, slot, locks, fileLocks, disposed>>
    /\ GosFrame

GosInit ==
    /\ backend \in {"memory", "file"}
    /\ maxSize = 1000
    /\ defaultTtl = 3600
    /\ now = 0
    /\ cache = <<>>
    /\ disk = [k \in Keys |-> NoFile]
    /\ stats = [hits |-> 0, misses |-> 0, lastCleanup |-> 0]
    /\ pending = {}
    /\ last = Idle
    /\ hist = [k \in Keys |-> NoHist]
    /\ lru = <<>>
    /\ steps = 0
    /\ views = <<>>
    /\ inited = <<>>
    /\ maps = <<>>
    /\ files = <<>>
    /\ dirs = {}
    /\ nsLast = NsIdle
    /\ calls = [c \in Callers |-> NewCall]
    /\ runs = 0
    /\ slot = NoSlot
    /\ locks = [c \in Callers |-> NoLock]
    /\ fileLocks = 0
    /\ disposed = FALSE
    /\ EnvInit

GosNext ==
    \/ \E c \in Callers : GosGet(c)
    \/ \E c \in Callers : GosFactory(c)
    \/ \E c \in Callers : GosSetMem(c)
    \/ \E c \in Callers : AcquireLock(c)
    \/ \E c \in Callers : WakeLock(c)
    \/ \E c \in Callers : WriteOpen(c)
    \/ \E c \in Callers : WriteDone(c)
    \/ \E l \in Callers : LockTimer(l)
    \/ Dispose
    \/ GosTick

GosSpec == GosInit /\ [][GosNext]_vars

\* no lock was given up by its timer, and dispose() was not called
NoTimeout == ~disposed /\ \A l \in Callers : ~locks[l].fired

AllDone == \A c \in Callers : calls[c].pc = "done"

\* C14 as stated: when NumCallers callers invoke getOrSet(key, factory) at once
\* on a cache without the key, the factory runs at least once and at most
\* NumCallers times, every caller returns a value some run of the factory
\* made, and when all calls are done the cache holds one of those values.
C14_Claim ==
    NoTimeout =>
        /\ runs <= NumCallers
        /\ \A c \in Callers : calls[c].pc = "done" => calls[c].ret \in 1..runs
        /\ AllDone => (runs >= 1 /\ slot.kind = "entry" /\ slot.value \in 1..runs)

\* C16 as stated: in one FileCache instance, whatever the number of writers
\* to one path, at most one of them is between taking and releasing the lock
\* of the path at a time, as long as no holder outlasts lockTimeout.
C16_Claim == NoTimeout => Cardinality(Holders) <= 1

\* C17 as stated: a writer that waits for the lock of a path goes on no
\* later than lockTimeout after the holder took the lock, also when the holder
\* never releases it; acquireLock always returns.
C17_Claim ==
    \A c \in Callers :
        calls[c].pc = "wait" => now <= locks[calls[c].waits].at + LockTimeout

-----------------------------------------------------------------------------
(* set() of a value that JSON.stringify rejects (a circular structure, a   *)
(* BigInt) or turns into undefined (undefined, a function), on an instance *)
(* with options.serialization left at true.                                *)

\* a value that cannot be serialized
Circular == -1

\* serialize(): JSON.parse(JSON.stringify(value)) returns
SerializeOk(v) == v # Circular

\* mutant: the eviction precedes the serialization
MemSetRaise_Evicted(c, k) == MemRemove(c, MemSetEvicts(c, k))

\* MemoryCache.set: the Map when serialize() throws; the eviction and the
\* insert come after it
MemSetRaise(c, k) == c

\* mutant: the capacity check is started although the write was not made
FileSetRaisePending_Started(p, k) == p \cup {Task(k)}

\* FileCache.set: the capacity checks in flight when the serialization
\* throws; writeEntry and ensureCapacity come after it
FileSetRaisePending(p, k) == p

\* FileCache.set: the directory when the serialization throws
FileSetRaise(d, k) == d

\* MemoryCache.set(k, v, ttl) of any value
MemSetValue(k, v, ttl) ==
    /\ backend = "memory"
    /\ Step
    /\ IF SerializeOk(v)
       THEN /\ MemSetBody("set", k, v, ttl)
            /\ raised' = FALSE
       ELSE /\ cache' = MemSetRaise(cache, k)
            /\ raised' = TRUE
            /\ last' = Call("set", k, v, MemHasKey(cache, k), {})
            /\ UNCHANGED <<hist, lru>>
    /\ UNCHANGED <<maxSize, backend, defaultTtl, now, disk, stats, pending>>
    /\ UNCHANGED <<unhandled, dirState, initialized, cleanupTimer, cleanupInterval, timerDue, gets, codec, mw>>

\* FileCache.set(k, v, ttl) of any value
FileSetValue(k, v, ttl) ==
    /\ backend = "file"
    /\ Step
    /\ IF SerializeOk(v)
       THEN /\ FileSetBody("set", k, v, ttl)
            /\ raised' = FALSE
       ELSE /\ disk' = FileSetRaise(disk, k)
            /\ pending' = FileSetRaisePending(pending, k)
            /\ raised' = TRUE
            /\ last' = Call("set", k, v, disk[k] # NoFile, {})
            /\ UNCHANGED <<hist, lru>>
    /\ UNCHANGED <<maxSize, backend, defaultTtl, now, cache, stats>>
    /\ UNCHANGED <<unhandled, dirState, initialized, cleanupTimer, cleanupInterval, timerDue, gets, codec, mw>>

\* a call that returns: the rejection of the call before it is over
Returns(A) == A /\ raised' = FALSE /\ UNCHANGED <<nsVars, lockVars>>
                /\ UNCHANGED <<unhandled, dirState, initialized, cleanupTimer,
                               cleanupInterval, timerDue, gets, codec, mw>>

SerNext ==
    \/ \E k \in Keys, v \in {Fresh(1), Circular}, ttl \in TtlArgs :
           MemSetValue(k, v, ttl) /\ UNCHANGED <<nsVars, lockVars>>
    \/ \E k \in Keys, v \in {Fresh(1), Circular}, ttl \in TtlArgs :
           FileSetValue(k, v, ttl) /\ UNCHANGED <<nsVars, lockVars>>
    \/ \E k \in Keys : Returns(MemGet(k))
    \/ \E k \in Keys : Returns(FileGet(k))
    \/ \E task \in Tasks : Returns(FileEnsureCapacity(task))
    \/ \E d \in Deltas : Returns(Tick(d))

SerSpec == Init /\ [][SerNext]_vars

\* C21: set(key, value) of a value that cannot be serialized rejects and
\* leaves the cache as it was: no entry is created or overwritten for key, no
\* other entry is evicted (and no capacity check is started).  Both backends,
\* serialization enabled.
C21_UnserializableRejects ==
    [][(last'.op = "set" /\ last'.val = Circular) =>
           /\ raised'
           /\ cache' = cache
           /\ disk' = disk
           /\ pending' = pending
           /\ last'.evicted = {}]_vars

\* C21 witness: a set() of an unserializable value was rejected on a full
\* cache that holds another value for the key
C21_Witness ==
    /\ last.op = "set"
    /\ last.val = Circular
    /\ raised
    /\ Stored(last.key)
    /\ Cardinality(StoredKeys) >= maxSize

-----------------------------------------------------------------------------
(* createCacheFromConfig and the NoOpCache it returns when caching is not  *)
(* enabled.  NoOpCache has no fields; what is followed is what each of its *)
(* methods returns and how often the factory of getOrSet is invoked.       *)

\* appConfig.cache: undefined, or an object with enabled and storage
CacheConfigs ==
    {[defined |-> FALSE, enabled |-> FALSE, storage |-> "memory"]} \cup
    [defined : {TRUE}, enabled : BOOLEAN, storage : {"memory", "file"}]

\* createCacheFromConfig: the class of the instance returned
CreateCacheFromConfig(cfg) ==
    IF ~(cfg.defined /\ cfg.enabled) THEN "noop"
    ELSE IF cfg.storage = "file" THEN "file" ELSE "memory"

\* what a NoOpCache method returned: val for get, ok for has and delete, n for
\* deleteMany, vals for getMany, keys for getKeys, st for getStats, same for
\* withNamespace (the instance returned is this); key is the list of keys
\* of a batch call
NoOpCall(op, k, val, ok, n, vs, st) ==
    [op |-> op, key |-> k, val |-> val, ok |-> ok, evicted |-> {}, n |-> n,
     vals |-> vs, keys |-> <<>>, st |-> st, same |-> TRUE]

\* NoOpCache.getStats
NoOpStats == [hits |-> 0, misses |-> 0, size |-> 0]

\* mutant: getMany returns an empty array
NoOpGetManyResult_Empty(ks) == <<>>

\* NoOpCache.getMany: keys.map(() => undefined)
NoOpGetManyResult(ks) == [i \in 1..Len(ks) |-> NotFound]

\* mutant: getOrSet remembers that it has a value and skips the factory
NoOpFactoryRuns_Once(r) == IF r = 0 THEN 1 ELSE r

\* NoOpCache.getOrSet: return factory()
NoOpFactoryRuns(r) == r + 1

\* one call of a NoOpCache method
NoOpStep(call) ==
    /\ backend = "noop"
    /\ Step
    /\ last' = call
    /\ raised' = FALSE
    /\ UNCHANGED <<maxSize, defaultTtl, backend, now, cache, disk, stats, pending, hist, lru>>
    /\ UNCHANGED <<nsVars, calls, slot, locks, fileLocks, disposed>>
    /\ UNCHANGED <<unhandled, dirState, initialized, cleanupTimer, cleanupInterval, timerDue, gets, codec, mw>>

NoOpGet(k) ==
    NoOpStep(NoOpCall("get", k, NotFound, FALSE, 0, <<>>, NoOpStats)) /\ UNCHANGED runs

NoOpSet(k, v) ==
    NoOpStep(NoOpCall("set", k, NotFound, FALSE, 0, <<>>, NoOpStats)) /\ UNCHANGED runs

NoOpHas(k) ==
    NoOpStep(NoOpCall("has", k, NotFound, FALSE, 0, <<>>, NoOpStats)) /\ UNCHANGED runs

NoOpDelete(k) ==
    NoOpStep(NoOpCall("delete", k, NotFound, FALSE, 0, <<>>, NoOpStats)) /\ UNCHANGED runs

NoOpClear ==
    NoOpStep(NoOpCall("clear", NoKey, NotFound, FALSE, 0, <<>>, NoOpStats)) /\ UNCHANGED runs

NoOpGetMany(ks) ==
    NoOpStep(NoOpCall("getMany", ks, NotFound, FALSE, 0, NoOpGetManyResult(ks), NoOpStats))
    /\ UNCHANGED runs

NoOpSetMany(ks) ==
    NoOpStep(NoOpCall("setMany", ks, NotFound, FALSE, 0, <<>>, NoOpStats)) /\ UNCHANGED runs

NoOpDeleteMany(ks) ==
    NoOpStep(NoOpCall("deleteMany", ks, NotFound, FALSE, 0, <<>>, NoOpStats)) /\ UNCHANGED runs

NoOpGetStats ==
    NoOpStep(NoOpCall("getStats", NoKey, NotFound, FALSE, 0, <<>>, NoOpStats)) /\ UNCHANGED runs

NoOpGetKeys ==
    NoOpStep(NoOpCall("getKeys", NoKey, NotFound, FALSE, 0, <<>>, NoOpStats)) /\ UNCHANGED runs

NoOpWithNamespace(name) ==
    NoOpStep(NoOpCall("withNamespace", name, NotFound, FALSE, 0, <<>>, NoOpStats))
    /\ UNCHANGED runs

NoOpCleanup ==
    NoOpStep(NoOpCall("cleanup", NoKey, NotFound, FALSE, 0, <<>>, NoOpStats)) /\ UNCHANGED runs

\* getOrSet(k, factory), the factory making v
NoOpGetOrSet(k, v) ==
    /\ NoOpStep(NoOpCall("getOrSet", k, v, FALSE, 0, <<>>, NoOpStats))
    /\ runs' = NoOpFactoryRuns(runs)

NoOpInit ==
    /\ \E cfg \in CacheConfigs :
           /\ ~(cfg.defined /\ cfg.enabled)
           /\ backend = CreateCacheFromConfig(cfg)
    /\ maxSize = 1000
    /\ defaultTtl = 3600
    /\ now = 0
    /\ cache = <<>>
    /\ disk = [k \in Keys |-> NoFile]
    /\ stats = [hits |-> 0, misses |-> 0, lastCleanup |-> 0]
    /\ pending = {}
    /\ last = Idle
    /\ hist = [k \in Keys |-> NoHist]
    /\ lru = <<>>
    /\ steps = 0
    /\ views = <<>>
    /\ inited = <<>>
    /\ maps = <<>>
    /\ files = <<>>
    /\ dirs = {}
    /\ nsLast = NsIdle
    /\ calls = <<>>
    /\ runs = 0
    /\ slot = NoSlot
    /\ locks = <<>>
    /\ fileLocks = 0
    /\ disposed = FALSE
    /\ EnvInit

KeyLists == {<<k>> : k \in Keys} \cup {<<k1, k2>> : k1, k2 \in Keys}

NoOpNext ==
    \/ \E k \in Keys : NoOpGet(k)
    \/ \E k \in Keys : NoOpSet(k, Fresh(1))
    \/ \E k \in Keys : NoOpHas(k)
    \/ \E k \in Keys : NoOpDelete(k)
    \/ NoOpClear
    \/ \E ks \in KeyLists : NoOpGetMany(ks)
    \/ \E ks \in KeyLists : NoOpSetMany(ks)
    \/ \E ks \in KeyLists : NoOpDeleteMany(ks)
    \/ NoOpGetStats
    \/ NoOpGetKeys
    \/ \E name \in NsNames : NoOpWithNamespace(name)
    \/ NoOpCleanup
    \/ \E k \in Keys : NoOpGetOrSet(k, Fresh(1))

NoOpSpec == NoOpInit /\ [][NoOpNext]_vars

\* C22: the cache createCacheFromConfig returns when caching is not enabled
\* answers, after any sequence of calls: get not-found, has and delete false,
\* deleteMany 0, getMany not-found at every position, getKeys empty, getStats
\* hits = misses = size = 0; no call raises; every getOrSet invokes its
\* factory exactly once and returns what it made; withNamespace returns a
\* cache that behaves the same (the instance itself).
C22_NoOpAnswers ==
    [][/\ backend = "noop"
       /\ ~raised'
       /\ cache' = cache /\ disk' = disk
       /\ last'.op = "get" => last'.val = NotFound
       /\ last'.op \in {"has", "delete"} => ~last'.ok
       /\ last'.op = "deleteMany" => last'.n = 0
       /\ last'.op = "getMany" =>
              /\ Len(last'.vals) = Len(last'.key)
              /\ \A i \in 1..Len(last'.vals) : last'.vals[i] = NotFound
       /\ last'.op = "getKeys" => last'.keys = <<>>
       /\ last'.op = "getStats" =>
              (last'.st.hits = 0 /\ last'.st.misses = 0 /\ last'.st.size = 0)
       /\ last'.op = "getOrSet" => (runs' = runs + 1 /\ last'.val = Fresh(1))
       /\ last'.op # "getOrSet" => runs' = runs
       /\ last'.op = "withNamespace" => last'.same]_vars

\* C22 witness: a second getOrSet on the disabled cache ran its factory again
C22_Witness ==
    /\ backend = "noop"
    /\ last.op = "getOrSet"
    /\ runs = 2
    /\ steps = 4

-----------------------------------------------------------------------------
(* getStats() and getKeys() of one instance, between the get() and set()   *)
(* calls of its caller.                                                    *)

\* the key that FileCache.getKeys returns whatever the directory holds
\* ('statKey'), as one of the keys of the model
StatKey == "a"

\* options.namespace, and the keys, as the characters they are made of; one
\* key contains the separator
NsChars == <<"n", "s">>

KeyChars(k) == IF k = "b" THEN <<"b", ":", "x">> ELSE <<k>>

\* getNamespacedKey: `${namespace}:${key}`
GetNamespacedKey(ns, kc) == ns \o <<":">> \o kc

\* key.startsWith(prefix), prefix being `${namespace}:`
StartsWithPrefix(ns, nk) ==
    Len(nk) >= Len(ns) + 1 /\ SubSeq(nk, 1, Len(ns) + 1) = ns \o <<":">>

\* key.substring(prefix.length)
StripPrefix(ns, nk) == SubSeq(nk, Len(ns) + 2, Len(nk))

\* MemoryCache.getKeys / getStats: the keys listed, in Map order
MemListKeys(c) ==
    LET nks == [i \in 1..Len(c) |-> GetNamespacedKey(NsChars, KeyChars(c[i].key))]
        own == SelectSeq(nks, LAMBDA nk : StartsWithPrefix(NsChars, nk))
    IN  [i \in 1..Len(own) |-> StripPrefix(NsChars, own[i])]

\* MemoryCache.getStats: the Map after get() was called on each listed key
RECURSIVE MemGetEach(_, _, _)
MemGetEach(c, ks, t) ==
    IF ks = <<>> THEN c ELSE MemGetEach(MemGetCache(c, Head(ks), t), Tail(ks), t)

\* MemoryCache.getStats: the counters after get() was called on each listed
\* key
RECURSIVE MemStatsEach(_, _, _, _)
MemStatsEach(st, c, ks, t) ==
    IF ks = <<>> THEN st
    ELSE MemStatsEach(StatsGet(st, MemGetResult(c, Head(ks), t)),
                      MemGetCache(c, Head(ks), t), Tail(ks), t)

MemKeySeq(c) == [i \in 1..Len(c) |-> c[i].key]

\* what getStats() or getKeys() returned: the counters and the keys
StatsCall(op, hits, misses, size, ks) ==
    [op |-> op, key |-> NoKey, val |-> NotFound, ok |-> TRUE, evicted |-> {},
     st |-> [hits |-> hits, misses |-> misses, size |-> size], keys |-> ks]

\* FileCache.getKeys
FileListKeys == <<KeyChars(StatKey)>>

\* FileCache.getStats: keys holds the listed key when its file is in the
\* directory, and the file names when it is not
FileStatsSize(d) == IF d[StatKey] # NoFile THEN 1 ELSE Cardinality(FileStored(d))

\* the get() and set() calls of the caller
StatsCaller(A) ==
    /\ A
    /\ gets' = IF last'.op # "get" THEN gets
               ELSE IF last'.val = NotFound THEN [gets EXCEPT !.missed = @ + 1]
                    ELSE [gets EXCEPT !.found = @ + 1]
    /\ UNCHANGED <<nsVars, lockVars>>
    /\ UNCHANGED <<raised, unhandled, dirState, initialized, cleanupTimer, cleanupInterval, timerDue, codec, mw>>

MemGetStats ==
    /\ backend = "memory"
    /\ Step
    /\ cache' = MemGetEach(cache, MemKeySeq(cache), now)
    /\ stats' = MemStatsEach(stats, cache, MemKeySeq(cache), now)
    /\ lru' = Without(lru, MemKeys(cache) \ MemKeys(cache'))
    /\ hist' = hist
    /\ last' = StatsCall("getStats", stats'.hits, stats'.misses, Len(cache), MemListKeys(cache))
    /\ gets' = [gets EXCEPT !.extra = @ + Len(cache)]
    /\ UNCHANGED <<maxSize, backend, defaultTtl, now, disk, pending>>
    /\ UNCHANGED <<nsVars, lockVars>>
    /\ UNCHANGED <<raised, unhandled, dirState, initialized, cleanupTimer, cleanupInterval, timerDue, codec, mw>>

MemGetKeys ==
    /\ backend = "memory"
    /\ Step
    /\ last' = StatsCall("getKeys", stats.hits, stats.misses, Len(cache), MemListKeys(cache))
    /\ UNCHANGED <<maxSize, backend, defaultTtl, now, cache, disk, stats, pending, hist, lru>>
    /\ UNCHANGED <<nsVars, lockVars, envVars>>

FileGetStats ==
    /\ backend = "file"
    /\ Step
    /\ last' = StatsCall("getStats", stats.hits, stats.misses, FileStatsSize(disk),
                         IF disk[StatKey] # NoFile THEN FileListKeys ELSE <<>>)
    /\ UNCHANGED <<maxSize, backend, defaultTtl, now, cache, disk, stats, pending, hist, lru>>
    /\ UNCHANGED <<nsVars, lockVars, envVars>>

FileGetKeys ==
    /\ backend = "file"
    /\ Step
    /\ last' = StatsCall("getKeys", stats.hits, stats.misses, 1, FileListKeys)
    /\ UNCHANGED <<maxSize, backend, defaultTtl, now, cache, disk, stats, pending, hist, lru>>
    /\ UNCHANGED <<nsVars, lockVars, envVars>>

StatsNext ==
    \/ \E k \in Keys, ttl \in TtlArgs : StatsCaller(MemSet(k, Fresh(1), ttl))
    \/ \E k \in Keys : StatsCaller(MemGet(k))
    \/ MemGetStats
    \/ MemGetKeys
    \/ \E k \in Keys, ttl \in TtlArgs : StatsCaller(FileSet(k, Fresh(1), ttl))
    \/ \E k \in Keys : StatsCaller(FileGet(k))
    \/ FileGetStats
    \/ FileGetKeys
    \/ \E task \in Tasks : StatsCaller(FileEnsureCapacity(task))
    \/ \E d \in Deltas : StatsCaller(Tick(d))

StatsSpec == Init /\ [][StatsNext]_vars

\* C23: for any sequence of get/set calls on a fresh cache, getStats()
\* reports misses = the number of get() calls that returned not-found, size =
\* the number of entries stored in the view, and hits = the number of get()
\* calls that returned a value, plus, on the Memory backend, one hit per
\* stored key for every getStats() call made.
C23_Claim ==
    [][last'.op = "getStats" =>
           /\ last'.st.misses = gets'.missed
           /\ last'.st.size = Cardinality(StoredKeys)
           /\ last'.st.hits = gets'.found + gets'.extra]_vars

\* the keys of the model that a listing names
Listed(ks) == {k \in Keys : \E i \in 1..Len(ks) : ks[i] = KeyChars(k)}

\* C24: getKeys() never returns a key that is not stored in the view: on the
\* Memory backend it returns exactly the stored keys, prefix stripped and
\* keys that contain ':' intact; on the File backend the listing may be
\* partial, but every key returned has its entry on disk.
C24_Claim ==
    [][last'.op = "getKeys" =>
           /\ \A i \in 1..Len(last'.keys) : \E k \in StoredKeys : last'.keys[i] = KeyChars(k)
           /\ backend = "memory" => Listed(last'.keys) = StoredKeys]_vars

-----------------------------------------------------------------------------
(* The interval timer that the constructor sets and dispose() clears.  A   *)
(* pass of the timer is cleanup() called from the timer's callback.        *)

\* options.cleanupInterval of the instances under test, milliseconds
CleanupIntervals == {-1, 0, 1000}

\* mutant: the timer is set whatever the interval
CleanupTimerSet_Always(interval) == TRUE

\* constructor: the timer is set if (this.options.cleanupInterval > 0)
CleanupTimerSet(interval) == interval > 0

\* mutant: dispose() leaves the timer running
DisposeTimer_Kept(t) == t

\* dispose(): clearInterval(this.cleanupTimer); this.cleanupTimer = null
DisposeTimer(t) == FALSE

TimerFrame ==
    /\ UNCHANGED <<nsVars, calls, runs, slot>>
    /\ UNCHANGED <<raised, unhandled, dirState, initialized, cleanupInterval, gets, codec, mw>>

\* the callback of setInterval: this.cleanup().catch(...)
TimerPass ==
    /\ cleanupTimer
    /\ now >= timerDue
    /\ Step
    /\ timerDue' = timerDue + cleanupInterval
    /\ IF backend = "memory"
       THEN LET ev == MemCleanupEvicts(cache, now)
            IN  /\ cache' = MemRemove(MemSweep(cache, now), ev)
                /\ hist' = Forget(hist, ev)
                /\ lru' = Without(lru, (MemKeys(cache) \ MemKeys(MemSweep(cache, now))) \cup ev)
                /\ last' = Call("timer", NoKey, NotFound, TRUE, ev)
                /\ stats' = [stats EXCEPT !.lastCleanup = now]
                /\ UNCHANGED disk
       ELSE /\ FileCleanupBody("timer", NoKey, TRUE)
            /\ UNCHANGED cache
    /\ UNCHANGED <<maxSize, backend, defaultTtl, now, pending>>
    /\ UNCHANGED <<cleanupTimer, locks, fileLocks, disposed>>
    /\ TimerFrame

\* MemoryCache.dispose
MemDispose ==
    /\ backend = "memory"
    /\ Step
    /\ cleanupTimer' = DisposeTimer(cleanupTimer)
    /\ disposed' = TRUE
    /\ last' = Call("dispose", NoKey, NotFound, disposed, {})
    /\ UNCHANGED <<maxSize, backend, defaultTtl, now, cache, disk, stats, pending, hist, lru>>
    /\ UNCHANGED <<timerDue, locks, fileLocks>>
    /\ TimerFrame

\* FileCache.dispose: the timer, then the timers of the file locks and the
\* lock Map
FileDispose ==
    /\ backend = "file"
    /\ Step
    /\ cleanupTimer' = DisposeTimer(cleanupTimer)
    /\ disposed' = TRUE
    /\ locks' = [l \in DOMAIN locks |-> [locks[l] EXCEPT !.armed = FALSE]]
    /\ fileLocks' = 0
    /\ last' = Call("dispose", NoKey, NotFound, disposed, {})
    /\ UNCHANGED <<maxSize, backend, defaultTtl, now, cache, disk, stats, pending, hist, lru>>
    /\ UNCHANGED timerDue
    /\ TimerFrame

\* a call of the owner, or the clock
TimerOwner(A) ==
    /\ A
    /\ UNCHANGED <<cleanupTimer, timerDue, locks, fileLocks, disposed>>
    /\ TimerFrame

\* the instance after its constructor
TimerInit ==
    /\ CacheInit
    /\ IdleInit
    /\ raised = FALSE
    /\ unhandled = FALSE
    /\ dirState = "absent"
    /\ initialized = FALSE
    /\ cleanupInterval \in CleanupIntervals
    /\ cleanupTimer = CleanupTimerSet(cleanupInterval)
    /\ timerDue = cleanupInterval
    /\ gets = NoGets
    /\ codec = NoCodec
    /\ mw = NoMw

TimerNext ==
    \/ TimerPass
    \/ MemDispose
    \/ FileDispose
    \/ \E k \in Keys, ttl \in TtlArgs : TimerOwner(MemSet(k, Fresh(1), ttl))
    \/ \E k \in Keys, ttl \in TtlArgs : TimerOwner(FileSet(k, Fresh(1), ttl))
    \/ \E task \in Tasks : TimerOwner(FileEnsureCapacity(task))
    \/ \E d \in Deltas : TimerOwner(Tick(d))

TimerSpec == TimerInit /\ [][TimerNext]_vars

\* C25: once dispose() has returned, no background cleanup pass is started
\* on the instance (its timer is stopped); a second dispose() changes
\* nothing; an instance made with cleanupInterval <= 0 never runs a
\* background cleanup.  Both backends.
C25_DisposeStopsTimer ==
    [][/\ last'.op = "timer" => (~disposed /\ cleanupInterval > 0)
       /\ disposed' => ~cleanupTimer'
       /\ (last'.op = "dispose" /\ disposed) =>
              UNCHANGED <<maxSize, backend, defaultTtl, now, cache, disk, stats, pending,
                          hist, lru, cleanupTimer, timerDue, locks, fileLocks, disposed>>]_vars

\* C25 witness: the instant of the next pass has come on a disposed instance
\* whose timer was set, and the clock went on
C25_Witness ==
    /\ disposed
    /\ cleanupInterval > 0
    /\ now >= timerDue
    /\ last.op = "tick"

-----------------------------------------------------------------------------
(* FileCache.initialize, the first thing every public method awaits.       *)
(*                                                                         *)
(* What is at path.join(baseDir, namespace): nothing, and mkdir would      *)
(* succeed ("absent"); nothing, and mkdir fails, the parent being          *)
(* read-only or not a directory ("blocked"); a regular file, so that mkdir *)
(* would fail with EEXIST ("file"); the directory ("dir").                 *)

DirStates == {"absent", "blocked", "file", "dir"}

\* fs.access(dir) resolves: something exists at the path
AccessOk(ds) == ds \in {"file", "dir"}

\* fs.mkdir(dir, {recursive: true}) resolves
MkdirOk(ds) == ds \in {"absent", "dir"}

\* initialize() resolves
InitializeOk(ini, ds) == ini \/ AccessOk(ds) \/ MkdirOk(ds)

\* initialize(): this.initialized when it has returned or thrown
InitializeFlag(ini, ds) == ini \/ InitializeOk(ini, ds)

\* initialize(): what is at the path afterwards
InitializeDir(ini, ds) == IF ~ini /\ ~AccessOk(ds) /\ MkdirOk(ds) THEN "dir" ELSE ds

DirFrame ==
    /\ UNCHANGED <<nsVars, lockVars>>
    /\ UNCHANGED <<unhandled, cleanupTimer, cleanupInterval, timerDue, gets, codec, mw>>

\* a call that changes nothing in the directory and returns or throws
DirAnswer(op, k, val, ok, thrown, st) ==
    /\ backend = "file"
    /\ Step
    /\ last' = Call(op, k, val, ok, {})
    /\ raised' = thrown
    /\ stats' = st
    /\ UNCHANGED <<maxSize, backend, defaultTtl, now, cache, disk, pending, hist, lru>>

\* a public method: initialize(), then its body A when the directory is
\* there; with a file at the path, what the body does on ENOTDIR
DirCall(A, op, k, val, ok, thrown, st) ==
    /\ initialized' = InitializeFlag(initialized, dirState)
    /\ dirState' = InitializeDir(initialized, dirState)
    /\ IF ~InitializeOk(initialized, dirState)
       THEN DirAnswer(op, k, NotFound, FALSE, TRUE, stats)
       ELSE IF dirState' = "dir"
            THEN A /\ raised' = FALSE
            ELSE DirAnswer(op, k, val, ok, thrown, st)
    /\ DirFrame

\* get(): readEntry catches the failure of readFile and get counts a miss
DirGet(k) ==
    DirCall(FileGet(k), "get", k, NotFound, FALSE, FALSE, [stats EXCEPT !.misses = @ + 1])

\* set(): writeEntry lets the failure of writeFile through
DirSet(k, v, ttl) == DirCall(FileSet(k, v, ttl), "set", k, NotFound, FALSE, TRUE, stats)

\* has(): readEntry catches the failure of readFile
DirHas(k) == DirCall(FileHas(k), "has", k, NotFound, FALSE, FALSE, stats)

\* delete(): the failure of unlink is caught
DirDelete(k) == DirCall(FileDelete(k), "delete", k, NotFound, FALSE, FALSE, stats)

\* the environment: the parent directory becomes writable, or read-only
DirPermit ==
    /\ dirState \in {"absent", "blocked"}
    /\ Step
    /\ dirState' = IF dirState = "blocked" THEN "absent" ELSE "blocked"
    /\ last' = Call("chmod", NoKey, NotFound, TRUE, {})
    /\ UNCHANGED <<maxSize, backend, defaultTtl, now, cache, disk, stats, pending, hist, lru>>
    /\ UNCHANGED <<raised, initialized>>
    /\ DirFrame

DirInit ==
    /\ CacheInit
    /\ backend = "file"
    /\ IdleInit
    /\ raised = FALSE
    /\ unhandled = FALSE
    /\ dirState \in DirStates
    /\ initialized = FALSE
    /\ cleanupTimer = FALSE
    /\ cleanupInterval = 0
    /\ timerDue = 0
    /\ gets = NoGets
    /\ codec = NoCodec
    /\ mw = NoMw

DirNext ==
    \/ \E k \in Keys : DirGet(k)
    \/ \E k \in Keys, ttl \in TtlArgs : DirSet(k, Fresh(1), ttl)
    \/ \E k \in Keys : DirHas(k)
    \/ \E k \in Keys : DirDelete(k)
    \/ DirPermit
    \/ \E task \in Tasks : FileEnsureCapacity(task) /\ UNCHANGED <<nsVars, lockVars, envVars>>

DirSpec == DirInit /\ [][DirNext]_vars

\* the step is a call of a public method
DirCalled == last'.op \in {"get", "set", "has", "delete"}

\* C26: in FileCache, while the namespace directory cannot be created, the
\* first operation and every later one rejects instead of behaving as a miss
\* or a no-op, and the instance is not marked initialized; once the directory
\* can be created, operations succeed.
C26_Claim ==
    [][DirCalled =>
           /\ (~initialized /\ ~MkdirOk(dirState)) => (raised' /\ ~initialized')
           /\ MkdirOk(dirState) => ~raised']_vars

-----------------------------------------------------------------------------
(* Failures of the work an instance does on its own: the pass of the       *)
(* interval timer, the capacity check that FileCache.set starts and the    *)
(* recency update that FileCache.get starts.  Each is a promise made at a  *)
(* call site; whether it fails is up to the file system.                   *)

MaintSites == {"timer", "ensureCapacity", "updateAccessTime"}

\* the call site awaits the promise, so that its rejection becomes the
\* caller's: no site does
Awaited(site) == FALSE

\* mutant: the timer's callback calls cleanup() with no catch
HasCatch_NotOnTimer(site) == site \in {"ensureCapacity", "updateAccessTime"}

\* the call site puts a .catch() on the promise
HasCatch(site) == site \in MaintSites

\* the rejection of the promise made at site reaches the caller of the method
Rejects(site, failed) == failed /\ Awaited(site)

\* the rejection of the promise made at site is handled by nobody
Escapes(site, failed) == failed /\ ~Awaited(site) /\ ~HasCatch(site)

\* a step of this section, and whether the work it started or ran failed
MaintCall(c, failed) ==
    [op |-> c.op, key |-> c.key, val |-> c.val, ok |-> c.ok, evicted |-> c.evicted,
     failed |-> failed]

MaintFrame ==
    /\ UNCHANGED <<nsVars, calls, runs, slot, locks, fileLocks, disposed>>
    /\ UNCHANGED <<dirState, initialized, cleanupTimer, cleanupInterval, gets, codec, mw>>

\* the callback of setInterval; the cleanup() it calls may reject
MaintTimer(failed) ==
    /\ cleanupTimer
    /\ now >= timerDue
    /\ Step
    /\ timerDue' = timerDue + cleanupInterval
    /\ unhandled' = (unhandled \/ Escapes("timer", failed))
    /\ last' = MaintCall(Call("timer", NoKey, NotFound, TRUE, {}), failed)
    /\ IF failed
       THEN UNCHANGED <<cache, disk, hist, lru, stats>>
       ELSE IF backend = "memory"
            THEN /\ cache' = MemRemove(MemSweep(cache, now), MemCleanupEvicts(cache, now))
                 /\ hist' = Forget(hist, MemCleanupEvicts(cache, now))
                 /\ lru' = Without(lru, MemKeys(cache) \ MemKeys(cache'))
                 /\ stats' = [stats EXCEPT !.lastCleanup = now]
                 /\ UNCHANGED disk
            ELSE /\ \E D \in FileTrims(FileSweep(disk, now)) :
                        /\ disk' = FileRemove(FileSweep(disk, now), D)
                        /\ hist' = Forget(hist, D)
                        /\ lru' = Without(lru, FileStored(disk) \ FileStored(disk'))
                 /\ stats' = [stats EXCEPT !.lastCleanup = now]
                 /\ UNCHANGED cache
    /\ UNCHANGED <<maxSize, backend, defaultTtl, now, pending, raised>>
    /\ MaintFrame

\* ensureCapacity(), started by FileCache.set; it may reject
MaintEnsureCapacity(task, failed) ==
    /\ backend = "file"
    /\ Step
    /\ task \in pending
    /\ pending' = pending \ {task}
    /\ unhandled' = (unhandled \/ Escapes("ensureCapacity", failed))
    /\ last' = MaintCall(Call("ensureCapacity", task.key, NotFound, task.overwrite, {}), failed)
    /\ IF ~failed /\ FileNeedsCleanup(disk)
       THEN /\ \E D \in FileTrims(FileSweep(disk, now)) :
                   /\ disk' = FileRemove(FileSweep(disk, now), D)
                   /\ hist' = Forget(hist, D)
                   /\ lru' = Without(lru, FileStored(disk) \ FileStored(disk'))
            /\ stats' = [stats EXCEPT !.lastCleanup = now]
       ELSE UNCHANGED <<disk, hist, lru, stats>>
    /\ UNCHANGED <<maxSize, backend, defaultTtl, now, cache, raised, timerDue>>
    /\ MaintFrame

\* FileCache.get; on a hit it starts updateAccessTime(), which may reject
MaintFileGet(k, failed) ==
    /\ backend = "file"
    /\ Step
    /\ LET r == FileGetResult(disk, k, now)
           f == failed /\ r # NotFound
       IN  /\ disk' = IF f THEN FileReadDisk(disk, k, now) ELSE FileGetDisk(disk, k, now)
           /\ stats' = StatsGet(stats, r)
           /\ hist' = HistGet(hist, k, r)
           /\ lru' = LruGet(lru, k, r)
           /\ raised' = Rejects("updateAccessTime", f)
           /\ unhandled' = (unhandled \/ Escapes("updateAccessTime", f))
           /\ last' = MaintCall(Call("get", k, r, r # NotFound, {}), f)
    /\ UNCHANGED <<maxSize, backend, defaultTtl, now, cache, pending, timerDue>>
    /\ MaintFrame

\* FileCache.set; it starts ensureCapacity() and returns
MaintFileSet(k, v, ttl) ==
    /\ FileSet(k, v, ttl)
    /\ raised' = Rejects("ensureCapacity", TRUE)
    /\ UNCHANGED <<unhandled, timerDue>>
    /\ MaintFrame

\* the calls of MemoryCache start no work
MaintMem(A) ==
    /\ A
    /\ raised' = FALSE
    /\ UNCHANGED <<unhandled, timerDue>>
    /\ MaintFrame

MaintNext ==
    \/ \E failed \in BOOLEAN : MaintTimer(failed)
    \/ \E task \in Tasks, failed \in BOOLEAN : MaintEnsureCapacity(task, failed)
    \/ \E k \in Keys, failed \in BOOLEAN : MaintFileGet(k, failed)
    \/ \E k \in Keys, ttl \in TtlArgs : MaintFileSet(k, Fresh(1), ttl)
    \/ \E k \in Keys, ttl \in TtlArgs : MaintMem(MemSet(k, Fresh(1), ttl))
    \/ \E k \in Keys : MaintMem(MemGet(k))
    \/ \E d \in Deltas : MaintMem(Tick(d))

MaintSpec == TimerInit /\ [][MaintNext]_vars

\* C27: a failure inside the timer's cleanup, inside the capacity check
\* started by a File set() or inside the recency update started by a File
\* get() never makes the caller's get() or set() reject and is never left
\* unhandled; the caller's call returns its normal result.
C27_MaintenanceContained ==
    [][/\ ~unhandled'
       /\ last'.op \in {"get", "set"} => ~raised'
       /\ \A k \in Keys :
              (last'.op = "get" /\ last'.key = k /\ backend = "file") =>
                  last'.val = FileGetResult(disk, k, now)
       /\ \A k \in Keys :
              (last'.op = "set" /\ last'.key = k /\ backend = "file") =>
                  disk'[k].value = Fresh(1)]_vars

\* C27 witness: a get() returned the stored value although the recency
\* update it started failed, every capacity check started before being over
C27_Witness ==
    /\ backend = "file"
    /\ last.op = "get"
    /\ last.failed
    /\ last.ok
    /\ pending = {}
    /\ ~raised
    /\ ~unhandled

-----------------------------------------------------------------------------
(* A get(key) that runs while set(key, v) calls overwrite a stored value.  *)
(* The last caller reads, the others write; the value stored at the start  *)
(* is Stored1, and writer c writes Stored1 + c.                            *)

Readers == {NumCallers}

RwWriters == Callers \ Readers

\* the value stored before any of the calls
Stored1 == 1

\* get(): readEntry reads the file as it is at that instant; bytes that do
\* not decode make it return null, and get returns undefined
RwGet(c) ==
    /\ Quiet
    /\ c \in Readers
    /\ calls[c].pc = "get"
    /\ calls' = [calls EXCEPT ![c].pc = "done",
                              ![c].ret = IF slot.kind = "entry" THEN slot.value ELSE NotFound]
    /\ UNCHANGED <<now, runs, slot, locks, fileLocks, disposed>>
    /\ GosFrame

RwInit ==
    /\ CacheInit
    /\ maxSize = MaxSize
    /\ defaultTtl = 0
    /\ views = <<>>
    /\ inited = <<>>
    /\ maps = <<>>
    /\ files = <<>>
    /\ dirs = {}
    /\ nsLast = NsIdle
    /\ calls = [c \in Callers |->
                   IF c \in Readers THEN NewCall
                   ELSE [NewCall EXCEPT !.pc = "set", !.made = Stored1 + c]]
    /\ runs = 0
    /\ slot = Bytes(Stored1)
    /\ locks = [c \in Callers |-> NoLock]
    /\ fileLocks = 0
    /\ disposed = FALSE
    /\ EnvInit

RwNext ==
    \/ \E c \in Callers : RwGet(c)
    \/ \E c \in Callers : GosSetMem(c)
    \/ \E c \in Callers : AcquireLock(c)
    \/ \E c \in Callers : WakeLock(c)
    \/ \E c \in Callers : WriteOpen(c)
    \/ \E c \in Callers : WriteDone(c)
    \/ \E l \in Callers : LockTimer(l)
    \/ GosTick

RwSpec == RwInit /\ [][RwNext]_vars

\* C28: in FileCache, a get(key) that runs concurrently with a set(key, v2)
\* overwriting a stored v1 returns v1 or v2 (here: the stored value or one of
\* the values being written), never a partial or mixed value (nor nothing).
C28_Claim ==
    \A c \in Readers :
        calls[c].pc = "done" => calls[c].ret \in {Stored1} \cup {Stored1 + w : w \in RwWriters}

-----------------------------------------------------------------------------
(* Calls of every kind issued together on one initialized instance, for    *)
(* one key.  get, has, delete and cleanup act on the directory in one      *)
(* step; set waits for the lock and then writes; FileCache.clear removes   *)
(* the directory and, later, makes it again.                               *)

RaceOps == {"get", "set", "has", "delete", "clear", "cleanup"}

\* a call of op; a set() writes v.  thrown: the call rejected; lost: the
\* file being written was unlinked under the writer
NewRace(op, v) ==
    [pc |-> op, op |-> op, made |-> v, ret |-> NotFound, waits |-> 0, dirty |-> FALSE,
     thrown |-> FALSE, lost |-> FALSE]

RaceFrame ==
    /\ UNCHANGED <<maxSize, backend, defaultTtl, cache, disk, stats, pending, last, hist,
                   lru, steps, nsVars>>
    /\ UNCHANGED <<raised, unhandled, initialized, cleanupTimer, cleanupInterval, timerDue,
                   gets, codec, mw>>

\* get() and has(): readEntry catches a missing directory like a missing file
RaceRead(c) ==
    /\ Quiet
    /\ calls[c].pc \in {"get", "has"}
    /\ calls' = [calls EXCEPT ![c].pc = "done",
                              ![c].ret = IF dirState = "dir" /\ slot.kind = "entry"
                                         THEN slot.value ELSE NotFound]
    /\ UNCHANGED <<now, runs, slot, locks, fileLocks, disposed, dirState>>
    /\ RaceFrame

\* delete(): Map.delete, or unlink inside a try
RaceDelete(c) ==
    /\ Quiet
    /\ calls[c].pc = "delete"
    /\ slot' = NoSlot
    /\ calls' = [d \in Callers |->
                    IF d = c THEN [calls[d] EXCEPT !.pc = "done"]
                    ELSE IF d \in Writers THEN [calls[d] EXCEPT !.lost = TRUE]
                         ELSE calls[d]]
    /\ UNCHANGED <<now, runs, locks, fileLocks, disposed, dirState>>
    /\ RaceFrame

\* cleanup(): readdir inside a try; a file that does not decode is unlinked
RaceCleanup(c) ==
    /\ Quiet
    /\ calls[c].pc = "cleanup"
    /\ slot' = IF backend = "file" /\ dirState = "dir" /\ slot = Unreadable THEN NoSlot ELSE slot
    /\ calls' = [d \in Callers |->
                    IF d = c THEN [calls[d] EXCEPT !.pc = "done"]
                    ELSE IF d \in Writers /\ slot' # slot THEN [calls[d] EXCEPT !.lost = TRUE]
                         ELSE calls[d]]
    /\ UNCHANGED <<now, runs, locks, fileLocks, disposed, dirState>>
    /\ RaceFrame

\* clear(): MemoryCache deletes the keys; FileCache calls fs.rm on the
\* directory, recursive and forced
RaceClearRm(c) ==
    /\ Quiet
    /\ calls[c].pc = "clear"
    /\ slot' = NoSlot
    /\ dirState' = IF backend = "file" THEN "absent" ELSE dirState
    /\ calls' = [d \in Callers |->
                    IF d = c
                    THEN [calls[d] EXCEPT !.pc = IF backend = "file" THEN "mkdir" ELSE "done"]
                    ELSE IF d \in Writers THEN [calls[d] EXCEPT !.lost = TRUE]
                         ELSE calls[d]]
    /\ UNCHANGED <<now, runs, locks, fileLocks, disposed>>
    /\ RaceFrame

\* FileCache.clear(): fs.mkdir of the directory, recursive
RaceClearMkdir(c) ==
    /\ Quiet
    /\ calls[c].pc = "mkdir"
    /\ dirState' = "dir"
    /\ calls' = [calls EXCEPT ![c].pc = "done"]
    /\ UNCHANGED <<now, runs, slot, locks, fileLocks, disposed>>
    /\ RaceFrame

\* writeEntry: fs.writeFile opens the file; with no directory it fails with
\* ENOENT, the finally releases the lock and set() rejects
RaceWriteOpen(c) ==
    /\ Quiet
    /\ calls[c].pc = "locked"
    /\ IF dirState = "dir"
       THEN /\ slot' = Unreadable
            /\ calls' = [d \in Callers |->
                            IF d = c
                            THEN [calls[d] EXCEPT !.pc = "writing", !.dirty = Writers # {}]
                            ELSE IF d \in Writers
                                 THEN [calls[d] EXCEPT !.dirty = TRUE]
                                 ELSE calls[d]]
            /\ UNCHANGED <<locks, fileLocks>>
       ELSE /\ calls' = [calls EXCEPT ![c].pc = "done", ![c].thrown = TRUE]
            /\ locks' = [locks EXCEPT ![c].armed = FALSE, ![c].resolved = TRUE]
            /\ fileLocks' = 0
            /\ UNCHANGED slot
    /\ UNCHANGED <<now, runs, disposed, dirState>>
    /\ RaceFrame

\* writeEntry: fs.writeFile is done, releaseLock(); set() returns
RaceWriteDone(c) ==
    /\ Quiet
    /\ calls[c].pc = "writing"
    /\ slot' \in (IF calls[c].lost THEN {slot}
                  ELSE IF calls[c].dirty THEN {Bytes(calls[c].made), Unreadable}
                       ELSE {Bytes(calls[c].made)})
    /\ locks' = [locks EXCEPT ![c].armed = FALSE, ![c].resolved = TRUE]
    /\ fileLocks' = 0
    /\ calls' = [calls EXCEPT ![c].pc = "done", ![c].ret = calls[c].made]
    /\ UNCHANGED <<now, runs, disposed, dirState>>
    /\ RaceFrame

RaceInit ==
    /\ CacheInit
    /\ maxSize = MaxSize
    /\ defaultTtl = 0
    /\ views = <<>>
    /\ inited = <<>>
    /\ maps = <<>>
    /\ files = <<>>
    /\ dirs = {}
    /\ nsLast = NsIdle
    /\ calls \in [Callers -> {NewRace(op, Stored1 + 1) : op \in RaceOps}]
    /\ runs = 0
    /\ slot = Bytes(Stored1)
    /\ locks = [c \in Callers |-> NoLock]
    /\ fileLocks = 0
    /\ disposed = FALSE
    /\ raised = FALSE
    /\ unhandled = FALSE
    /\ dirState = "dir"
    /\ initialized = TRUE
    /\ cleanupTimer = FALSE
    /\ cleanupInterval = 0
    /\ timerDue = 0
    /\ gets = NoGets
    /\ codec = NoCodec
    /\ mw = NoMw

RaceNext ==
    \/ \E c \in Callers : RaceRead(c)
    \/ \E c \in Callers : RaceDelete(c)
    \/ \E c \in Callers : RaceCleanup(c)
    \/ \E c \in Callers : RaceClearRm(c)
    \/ \E c \in Callers : RaceClearMkdir(c)
    \/ \E c \in Callers : GosSetMem(c)
    \/ \E c \in Callers : AcquireLock(c)
    \/ \E c \in Callers : WakeLock(c)
    \/ \E c \in Callers : RaceWriteOpen(c)
    \/ \E c \in Callers : RaceWriteDone(c)
    \/ \E l \in Callers : LockTimer(l)
    \/ GosTick

RaceSpec == RaceInit /\ [][RaceNext]_vars

\* C29: within one instance, in any interleaving of get, set, has, delete,
\* clear and cleanup calls issued together, no call rejects because another
\* call of the instance is in progress.
C29_Claim == \A c \in Callers : ~calls[c].thrown

-----------------------------------------------------------------------------
(* FileCache.set(key, value) and FileCache.get(key) of one key, on the     *)
(* bytes of its file, under the four settings of options.compression and   *)
(* options.encryptionKey.                                                  *)

\* the values a caller stores
JsonValues ==
    { JNull, JBool(TRUE), JBool(FALSE), JNum(0), JNum(7), JNum(-12), JNum(305),
      JStr(<<>>), JStr(<<"a", "b">>), JStr(<<"a", "a", "a">>),
      JArr(<<>>), JArr(<<JNum(1), JNum(2)>>), JArr(<<JNum(7), JNum(7), JNum(7)>>),
      JObj(<< <<"a">>, <<"b">> >>, << JNum(1), JArr(<<JNum(1), JNum(2)>>) >>),
      JObj(<< <<"a">> >>, << JObj(<< <<"b">> >>, << JNull >>) >>) }

\* options.encryptionKey, <<>> when it is not set
EncryptionKeys == {<<>>, <<"k", "e", "y">>}

\* crypto.randomBytes
Ivs == {0, 31, 200}

\* the reference the caller holds to its value
CallerRef == 1

\* calls made on the key
MaxCodecCalls == 3

CodecStep == steps < MaxCodecCalls /\ steps' = steps + 1

CodecFrame ==
    /\ UNCHANGED <<maxSize, backend, defaultTtl, now, cache, disk, pending, last, hist, lru,
                   nsVars, lockVars>>
    /\ UNCHANGED <<raised, unhandled, dirState, initialized, cleanupTimer, cleanupInterval,
                   timerDue, gets, mw>>

\* set(): JSON.parse(JSON.stringify(value)) makes the stored copy,
\* writeEntry writes its bytes
CodecSet(v, iv) ==
    /\ CodecStep
    /\ iv \in (IF codec.encryptionKey # <<>> THEN Ivs ELSE {0})
    /\ LET serializedValue == JSONparse(Stringify(v)).v
           expiry == ComputeExpiry(<<>>, now)
       IN  codec' = [codec EXCEPT !.given = v,
                                  !.givenRef = IF IsObject(v) THEN CallerRef ELSE 0,
                                  !.bytes = WriteBuffer(EntryOf(serializedValue, expiry, now),
                                                        codec, iv),
                                  !.got = Undefined,
                                  !.gotRef = 0,
                                  !.heap = IF IsObject(v) THEN @ + 1 ELSE @,
                                  !.op = "set"]
    /\ UNCHANGED stats
    /\ CodecFrame

\* get(): readEntry decodes the bytes, JSON.parse makes a new object, get
\* returns its value
CodecGet ==
    /\ CodecStep
    /\ LET entry == ReadBuffer(codec.bytes, codec, now)
           value == IF entry.ok THEN Field(entry.v, ValueKey) ELSE Undefined
       IN  /\ codec' = [codec EXCEPT !.got = value,
                                     !.gotRef = IF IsObject(value) THEN codec.heap + 1 ELSE 0,
                                     !.heap = IF entry.ok THEN @ + 1 ELSE @,
                                     !.op = "get"]
           /\ stats' = IF entry.ok THEN [stats EXCEPT !.hits = @ + 1]
                       ELSE [stats EXCEPT !.misses = @ + 1]
    /\ CodecFrame

CodecInit ==
    /\ CacheInit
    /\ backend = "file"
    /\ maxSize = MaxSize
    /\ IdleInit
    /\ raised = FALSE
    /\ unhandled = FALSE
    /\ dirState = "dir"
    /\ initialized = TRUE
    /\ cleanupTimer = FALSE
    /\ cleanupInterval = 0
    /\ timerDue = 0
    /\ gets = NoGets
    /\ mw = NoMw
    /\ \E c \in BOOLEAN, ek \in EncryptionKeys :
          codec = [NoCodec EXCEPT !.compression = c, !.encryptionKey = ek]

CodecNext ==
    \/ \E v \in JsonValues, iv \in Ivs : CodecSet(v, iv)
    \/ CodecGet

CodecSpec == CodecInit /\ [][CodecNext]_vars

\* C30: under each setting of compression and encryption, the bytes set()
\* writes decode to the text of the entry it encoded, and a get() of the
\* key returns a value equal to the one stored, in an object that is not
\* the caller's.
C30_RoundTrip ==
    /\ codec.op = "set" =>
          ReadText(codec.bytes, codec)
             = [ok |-> TRUE,
                text |-> Stringify(EntryOf(codec.given, ComputeExpiry(<<>>, now), now))]
    /\ codec.op = "get" /\ codec.bytes # <<>> =>
          /\ codec.got = codec.given
          /\ IsObject(codec.given) => codec.gotRef # codec.givenRef

\* a get() has returned the stored object from a compressed and encrypted
\* file
C30_Witness ==
    /\ codec.op = "get"
    /\ codec.compression
    /\ codec.encryptionKey # <<>>
    /\ codec.given = JObj(<< <<"a">>, <<"b">> >>, << JNum(1), JArr(<<JNum(1), JNum(2)>>) >>)
    /\ codec.got = codec.given
    /\ codec.gotRef > CallerRef

-----------------------------------------------------------------------------
(* createRateLimitMiddleware(opts) and the requests that go through the    *)
(* function it returns.                                                    *)

WindowMs == 2000
MaxRequests == 5
MaxMwTime == 5000

\* opts.max, opts.perIpMax
MaxOpts == {1, 2, 3}
PerIpMaxOpts == {1, 2}

\* req.ip; "" is a request without one
ReqIps == {"", "1.1.1.1", "2.2.2.2"}

\* req.ip || req.headers['x-forwarded-for'] || req.socket?.remoteAddress || 'unknown'
IpOf(req) == IF req = "" THEN "unknown" ELSE req

IpKeys == {IpOf(req) : req \in ReqIps}

\* perIpCounters.get(ip) of an ip the Map does not hold
NoCounter == [count |-> -1, expiresAt |-> -1]

NewCounter(t, windowMs) == [count |-> 0, expiresAt |-> t + windowMs]

\* mutant: a counter is reset only after the instant at which it expires
ResetIfNeeded_Late(counter, t, windowMs) ==
    IF t > counter.expiresAt THEN NewCounter(t, windowMs) ELSE counter

\* resetIfNeeded
ResetIfNeeded(counter, t, windowMs) ==
    IF t >= counter.expiresAt THEN NewCounter(t, windowMs) ELSE counter

\* res after the middleware returned: the status it set (0 for none) and
\* whether next() was called
Res(ip, code, nxt) == [ip |-> ip, code |-> code, next |-> nxt]

MwFrame == UNCHANGED <<maxSize, backend, defaultTtl, cache, disk, stats, pending, last, hist,
                       lru, steps, nsVars, lockVars, raised, unhandled, dirState, initialized,
                       cleanupTimer, cleanupInterval, timerDue, gets, codec>>

\* rateLimit(req, res, next)
RateLimit(req) ==
    /\ mw.made
    /\ mw.seen < MaxRequests
    /\ LET w == mw.opts.windowMs
           ip == IpOf(req)
           g == ResetIfNeeded(mw.globalCounter, now, w)
           made == IF mw.perIpCounters[ip] = NoCounter THEN NewCounter(now, w)
                   ELSE mw.perIpCounters[ip]
           c == ResetIfNeeded(made, now, w)
       IN  IF g.count >= mw.opts.max
           THEN mw' = [mw EXCEPT !.globalCounter = g,
                                 !.res = Res(ip, 429, FALSE),
                                 !.seen = @ + 1]
           ELSE IF c.count >= mw.opts.perIpMax
           THEN mw' = [mw EXCEPT !.globalCounter = g,
                                 !.perIpCounters[ip] = c,
                                 !.res = Res(ip, 429, FALSE),
                                 !.seen = @ + 1]
           ELSE mw' = [mw EXCEPT !.globalCounter = [g EXCEPT !.count = @ + 1],
                                 !.perIpCounters[ip] = [c EXCEPT !.count = @ + 1],
                                 !.passes = Append(@, [ip |-> ip, at |-> now]),
                                 !.res = Res(ip, 0, TRUE),
                                 !.seen = @ + 1]
    /\ UNCHANGED now
    /\ MwFrame

\* time passes between two requests
MwTick ==
    /\ now < MaxMwTime
    /\ now' = now + MsPerSec
    /\ UNCHANGED mw
    /\ MwFrame

MwInit ==
    /\ CacheInit
    /\ backend = "memory"
    /\ maxSize = MaxSize
    /\ defaultTtl = 0
    /\ IdleInit
    /\ raised = FALSE
    /\ unhandled = FALSE
    /\ dirState = "absent"
    /\ initialized = FALSE
    /\ cleanupTimer = FALSE
    /\ cleanupInterval = 0
    /\ timerDue = 0
    /\ gets = NoGets
    /\ codec = NoCodec
    /\ \E m \in MaxOpts, p \in PerIpMaxOpts :
          mw = [made |-> TRUE,
                opts |-> [windowMs |-> WindowMs, max |-> m, perIpMax |-> p],
                globalCounter |-> NewCounter(now, WindowMs),
                perIpCounters |-> [ip \in IpKeys |-> NoCounter],
                passes |-> <<>>,
                res |-> Res("", 0, FALSE),
                seen |-> 0]

MwNext ==
    \/ \E req \in ReqIps : RateLimit(req)
    \/ MwTick

MwSpec == MwInit /\ [][MwNext]_vars

\* the requests of the ips that were passed to next() during the window
\* that ends at expiresAt
PassedIn(m, ips, expiresAt) ==
    Cardinality({i \in 1..Len(m.passes) :
                    /\ m.passes[i].ip \in ips
                    /\ m.passes[i].at >= expiresAt - m.opts.windowMs
                    /\ m.passes[i].at < expiresAt})

\* in the window of each counter no more requests were passed on than the
\* counter allows
WithinLimits(m) ==
    /\ PassedIn(m, IpKeys, m.globalCounter.expiresAt) <= m.opts.max
    /\ \A ip \in IpKeys :
          m.perIpCounters[ip] # NoCounter =>
             PassedIn(m, {ip}, m.perIpCounters[ip].expiresAt) <= m.opts.perIpMax

\* a request arriving now finds the limit of the counter reached
Reached(m, counter, ips, limit) ==
    /\ counter # NoCounter
    /\ now < counter.expiresAt
    /\ PassedIn(m, ips, counter.expiresAt) >= limit

CountOf(counter) == IF counter = NoCounter THEN 0 ELSE counter.count

\* C31: in the window of every counter at most max requests in all and at
\* most perIpMax requests of one ip are passed to next(); a request that
\* arrives when one of the two limits is reached gets status 429, next() is
\* not called for it and no counter grows; any other request is passed on;
\* a request that arrives when the window of the global counter has expired
\* starts its count again from 0.
C31_RateLimit ==
    [][mw.seen # mw'.seen =>
         LET ip == mw'.res.ip
             limited == \/ Reached(mw, mw.globalCounter, IpKeys, mw.opts.max)
                        \/ Reached(mw, mw.perIpCounters[ip], {ip}, mw.opts.perIpMax)
         IN  /\ WithinLimits(mw')
             /\ (mw'.res.code = 429) = limited
             /\ mw'.res.next = ~limited
             /\ limited =>
                   /\ mw'.passes = mw.passes
                   /\ mw'.globalCounter.count <= mw.globalCounter.count
                   /\ \A i \in IpKeys :
                         CountOf(mw'.perIpCounters[i]) <= CountOf(mw.perIpCounters[i])
             /\ now >= mw.globalCounter.expiresAt =>
                   /\ mw'.globalCounter.count = (IF mw'.res.next THEN 1 ELSE 0)
                   /\ mw'.globalCounter.expiresAt = now + mw.opts.windowMs]_vars

\* a request was refused with 429 and, after the window had expired, a
\* request of the same ip was passed on
C31_Witness ==
    /\ mw.made
    /\ mw.res.next
    /\ mw.seen > Len(mw.passes)
    /\ \E i \in 1..Len(mw.passes) :
          /\ mw.passes[i].ip = mw.res.ip
          /\ mw.passes[i].at + mw.opts.windowMs <= now
    /\ mw.perIpCounters[mw.res.ip].count = 1

-----------------------------------------------------------------------------
(* FileCache: many get() hits on stored keys, counted per key since the    *)
(* set() that stored it.                                                   *)

MaxHits == 10

\* the keys that are read
HitKeys == {"a", "b"}

HitFrame ==
    UNCHANGED <<nsVars, lockVars, raised, unhandled, dirState, initialized, cleanupTimer,
                cleanupInterval, timerDue, codec, mw>>

\* set() of a key that is not stored
HitSet(k) ==
    /\ disk[k] = NoFile
    /\ FileSet(k, 1, <<>>)
    /\ gets' = [gets EXCEPT !.hits[k] = 0]
    /\ HitFrame

\* get() and the updateAccessTime it starts
HitGet(k) ==
    /\ backend = "file"
    /\ gets.total < MaxHits
    /\ FileGetBody("get", k)
    /\ gets' = IF FileReadOk(disk, k, now)
               THEN [gets EXCEPT !.total = @ + 1,
                                 !.hits[k] = @ + 1,
                                 !.tenth[k] = IF gets.hits[k] + 1 = RecencyEvery THEN now ELSE @]
               ELSE [gets EXCEPT !.total = @ + 1]
    /\ UNCHANGED <<maxSize, backend, defaultTtl, now, cache, pending, steps>>
    /\ HitFrame

HitEnsureCapacity(task) ==
    /\ FileEnsureCapacity(task)
    /\ UNCHANGED gets
    /\ HitFrame

HitTick ==
    /\ now < MaxTicks * MsPerSec
    /\ now' = now + MsPerSec
    /\ UNCHANGED <<maxSize, backend, defaultTtl, cache, disk, stats, pending, last, hist, lru,
                   steps, gets>>
    /\ HitFrame

HitInit ==
    /\ CacheInit
    /\ backend = "file"
    /\ defaultTtl = 0
    /\ IdleInit
    /\ raised = FALSE
    /\ unhandled = FALSE
    /\ dirState = "dir"
    /\ initialized = TRUE
    /\ cleanupTimer = FALSE
    /\ cleanupInterval = 0
    /\ timerDue = 0
    /\ gets = [total |-> 0, hits |-> [k \in Keys |-> 0], tenth |-> [k \in Keys |-> 0]]
    /\ codec = NoCodec
    /\ mw = NoMw

HitNext ==
    \/ \E k \in HitKeys : HitSet(k)
    \/ \E k \in HitKeys : HitGet(k)
    \/ \E task \in Tasks : HitEnsureCapacity(task)
    \/ HitTick

HitSpec == HitInit /\ [][HitNext]_vars

\* C32: the file of a key that was hit RecencyEvery times since it was set
\* holds hitCount = RecencyEvery and the time of that hit as lastAccessed;
\* the file of a key hit fewer times holds what set() wrote.
C32_Claim ==
    \A k \in Keys :
       disk[k] # NoFile =>
          IF gets.hits[k] >= RecencyEvery
          THEN disk[k].hitCount = RecencyEvery /\ disk[k].lastAccessed = gets.tenth[k]
          ELSE disk[k].hitCount = NoHitCount /\ disk[k].lastAccessed = disk[k].createdAt

-----------------------------------------------------------------------------
\* C33: when cleanup() of MemoryCache returns, the Map holds no expired
\* entry and at most maxSize entries.
C33_MemCleanupRestoresBound ==
    [][(backend = "memory" /\ last'.op = "cleanup") =>
           /\ \A k \in MemKeys(cache') : ~Expired(MemEntry(cache', k), now')
           /\ Len(cache') <= maxSize]_vars

\* a cleanup() has returned that found an entry set earlier and since
\* expired, and the entry is gone
C33_Witness ==
    /\ backend = "memory"
    /\ last.op = "cleanup"
    /\ \E k \in Keys : hist[k].live /\ hist[k].at < now /\ ~MemHasKey(cache, k)

-----------------------------------------------------------------------------
\* C34: the capacity check that a set() of a new key started, run with no
\* call in between, leaves at most maxSize entries in the directory, and
\* the key just written is one of them.
C34_Claim ==
    [][(/\ backend = "file"
        /\ last.op = "set" /\ ~last.ok
        /\ last'.op = "ensureCapacity" /\ last'.key = last.key) =>
           /\ Cardinality(FileStored(disk')) <= maxSize
           /\ last.key \in FileStored(disk')]_vars

-----------------------------------------------------------------------------
(* FileCache: one set(key, v) and, at the same time, get(), has() and      *)
(* cleanup() calls that read the file of key and, in a later step, unlink  *)
(* it when what they read was expired or, for cleanup(), did not decode.   *)

\* the file of an entry that has expired
OldExpired == [kind |-> "expired", value |-> Stored1]

StaleWriter == 1
StaleReaders == Callers \ {StaleWriter}

\* readEntry, up to its decision: fs.readFile and the decoding
StaleRead(c) ==
    /\ Quiet
    /\ calls[c].pc \in {"get", "has", "cleanup"}
    /\ calls' = [calls EXCEPT
                    ![c].pc = IF \/ dirState = "dir" /\ slot = OldExpired
                                 \/ dirState = "dir" /\ slot = Unreadable
                                                     /\ calls[c].op = "cleanup"
                              THEN "unlink" ELSE "done",
                    ![c].ret = IF dirState = "dir" /\ slot.kind = "entry"
                               THEN slot.value ELSE NotFound]
    /\ UNCHANGED <<now, runs, slot, locks, fileLocks, disposed, dirState>>
    /\ RaceFrame

\* await fsUnlink(filePath).catch(() => {}): the file now at the path goes
StaleUnlink(c) ==
    /\ Quiet
    /\ calls[c].pc = "unlink"
    /\ slot' = NoSlot
    /\ calls' = [d \in Callers |->
                    IF d = c THEN [calls[d] EXCEPT !.pc = "done"]
                    ELSE IF d \in Writers THEN [calls[d] EXCEPT !.lost = TRUE]
                         ELSE calls[d]]
    /\ UNCHANGED <<now, runs, locks, fileLocks, disposed, dirState>>
    /\ RaceFrame

StaleInit ==
    /\ CacheInit
    /\ backend = "file"
    /\ maxSize = MaxSize
    /\ defaultTtl = 0
    /\ views = <<>>
    /\ inited = <<>>
    /\ maps = <<>>
    /\ files = <<>>
    /\ dirs = {}
    /\ nsLast = NsIdle
    /\ \E ops \in [StaleReaders -> {"get", "has", "cleanup"}] :
          calls = [c \in Callers |->
                      IF c = StaleWriter THEN NewRace("set", Stored1 + 1)
                      ELSE NewRace(ops[c], NotFound)]
    /\ runs = 0
    /\ slot \in {Bytes(Stored1), OldExpired}
    /\ locks = [c \in Callers |-> NoLock]
    /\ fileLocks = 0
    /\ disposed = FALSE
    /\ raised = FALSE
    /\ unhandled = FALSE
    /\ dirState = "dir"
    /\ initialized = TRUE
    /\ cleanupTimer = FALSE
    /\ cleanupInterval = 0
    /\ timerDue = 0
    /\ gets = NoGets
    /\ codec = NoCodec
    /\ mw = NoMw

StaleNext ==
    \/ \E c \in Callers : StaleRead(c)
    \/ \E c \in Callers : StaleUnlink(c)
    \/ \E c \in Callers : AcquireLock(c)
    \/ \E c \in Callers : RaceWriteOpen(c)
    \/ \E c \in Callers : RaceWriteDone(c)
    \/ \E l \in Callers : LockTimer(l)
    \/ GosTick

StaleSpec == StaleInit /\ [][StaleNext]_vars

\* C35: once set(key, v) has returned, with no delete(), clear() or trim,
\* the file of key holds v, whatever the get(), has() and cleanup() calls
\* running at the same time had read.
C35_Claim ==
    calls[StaleWriter].pc = "done" /\ ~calls[StaleWriter].thrown =>
        slot = Bytes(calls[StaleWriter].made)

-----------------------------------------------------------------------------
(* MemoryCache: every call of one instance, clear() among them.            *)

\* clear(): every key of the instance has its prefix and is deleted
MemClear ==
    /\ backend = "memory"
    /\ Step
    /\ cache' = <<>>
    /\ hist' = Forget(hist, Keys)
    /\ lru' = Without(lru, Keys)
    /\ last' = Call("clear", NoKey, NotFound, TRUE, {})
    /\ UNCHANGED <<maxSize, backend, defaultTtl, now, disk, stats, pending>>

BoundNext ==
    \/ Next
    \/ MemClear /\ UNCHANGED <<nsVars, lockVars, envVars>>

BoundSpec == Init /\ [][BoundNext]_vars

\* C36: the Map of a MemoryCache with maxSize >= 1 never holds more than
\* maxSize entries.
C36_MemSizeBound == backend = "memory" /\ maxSize >= 1 => Len(cache) <= maxSize

\* a set() of a new key into a full Map has evicted an entry, and a second
\* one in the same tick has done so again
C36_Witness ==
    /\ backend = "memory"
    /\ now = 0
    /\ steps > maxSize + 1
    /\ last.op \in {"set", "setMany"}
    /\ last.evicted # {}
    /\ Len(cache) = maxSize

-----------------------------------------------------------------------------
(* FileCache: whose registration a release or a timeout removes.           *)

\* the call registered in the Map under the lock key of the path is between
\* the return of its acquireLock and its releaseLock()
RegisteredHolds == fileLocks # 0 /\ fileLocks \in Holders

\* C37 as stated: a release call or a timeout removes from the Map only the
\* registration of the holder it belongs to; the registration of a holder
\* that is still in its write section is never removed by the release or the
\* timeout of another.  dispose() is not called.
C37_Claim ==
    [][(RegisteredHolds /\ fileLocks' = 0 /\ ~disposed')
         => \/ calls'[fileLocks].pc = "done"
            \/ locks'[fileLocks].fired /\ ~locks[fileLocks].fired]_vars

-----------------------------------------------------------------------------
(* MemoryCache: what getStats() and getKeys() do to the entries.           *)

\* the call that returned is getStats() or getKeys() of a MemoryCache
Observed == backend = "memory" /\ last'.op \in {"getStats", "getKeys"}

\* C38 as stated: getStats() and getKeys() of a MemoryCache change no
\* entry's lastAccessed or hitCount, remove no entry, and leave the entry
\* that the next eviction removes the same.
C38_Claim ==
    [][Observed =>
           /\ MemKeys(cache') = MemKeys(cache)
           /\ \A k \in MemKeys(cache) :
                  /\ MemEntry(cache', k).lastAccessed = MemEntry(cache, k).lastAccessed
                  /\ MemEntry(cache', k).hitCount = MemEntry(cache, k).hitCount
           /\ Len(cache) > 0 => LRUVictim(cache') = LRUVictim(cache)]_vars

-----------------------------------------------------------------------------
(* FileCache: the directory of a namespace.  getNamespaceDir is            *)
(* path.join(baseDir, namespace), and path.join normalizes its result: an  *)
(* empty segment and "." are dropped and ".." removes the segment before   *)
(* it.  A path is the sequence of its segments below the root; a file is   *)
(* the pair of its directory and the key whose hash names it.  baseDir     *)
(* exists when the first instance is made.                                 *)

\* options.baseDir of the instances
BaseDir == <<"srv", "cache">>

\* namespace strings given to the constructor and to withNamespace()
JoinNames == {"", ".", "..", "a", "a/b", "ab"}

\* the namespace string split at the path separator
JoinSegments(name) ==
    CASE name = "" -> <<>>
      [] name = "." -> <<".">>
      [] name = ".." -> <<"..">>
      [] name = "a" -> <<"a">>
      [] name = "a/b" -> <<"a", "b">>
      [] name = "ab" -> <<"ab">>

\* path.normalize, segment by segment
RECURSIVE Normalize(_, _)
Normalize(acc, rest) ==
    IF rest = <<>> THEN acc
    ELSE LET h == Head(rest)
         IN  Normalize(IF h \in {"", "."} THEN acc
                       ELSE IF h = ".."
                            THEN SubSeq(acc, 1, IF acc = <<>> THEN 0 ELSE Len(acc) - 1)
                            ELSE Append(acc, h),
                       Tail(rest))

PathJoin(a, b) == Normalize(<<>>, a \o b)

\* getNamespaceDir of an instance with this namespace
GetNamespaceDir(name) == PathJoin(BaseDir, JoinSegments(name))

\* the path p is the directory d or lies inside it
Inside(p, d) == Len(d) <= Len(p) /\ SubSeq(p, 1, Len(d)) = d

\* fs.mkdir(d, {recursive: true}): d and the directories above it
MkdirP(d) == {SubSeq(d, 1, n) : n \in 1..Len(d)}

\* initialize(): the directories after it; the namespace directory is made
\* unless the instance has done so before or finds it
JoinInitialize(v) ==
    IF inited[v] \/ GetNamespaceDir(View(v)) \in dirs THEN dirs
    ELSE dirs \cup MkdirP(GetNamespaceDir(View(v)))

JoinFrame(op, v, k, val) ==
    /\ backend = "file"
    /\ v \in NsViews
    /\ inited' = [inited EXCEPT ![v] = TRUE]
    /\ NsStep(op, v, k, val)
    /\ UNCHANGED <<views, maps>>

\* set(): the file is written if the directory is there, and the call throws
\* if it is not
JoinSet(v, k) ==
    /\ JoinFrame("set", v, k, Stored1)
    /\ dirs' = JoinInitialize(v)
    /\ files' = IF GetNamespaceDir(View(v)) \in dirs'
                THEN files \cup {<<GetNamespaceDir(View(v)), k>>}
                ELSE files

\* delete(): fs.unlink of the file of the key
JoinDelete(v, k) ==
    /\ JoinFrame("delete", v, k, NotFound)
    /\ dirs' = JoinInitialize(v)
    /\ files' = files \ {<<GetNamespaceDir(View(v)), k>>}

\* clear(): fs.rm of the namespace directory with all that is in it, then
\* fs.mkdir of it
JoinClear(v) ==
    /\ JoinFrame("clear", v, NoKey, NotFound)
    /\ dirs' = {d \in JoinInitialize(v) : ~Inside(d, GetNamespaceDir(View(v)))}
                   \cup MkdirP(GetNamespaceDir(View(v)))
    /\ files' = {f \in files : ~Inside(f[1], GetNamespaceDir(View(v)))}

JoinInit ==
    /\ backend = "file"
    /\ maxSize = 1000
    /\ defaultTtl = 3600
    /\ now = 0
    /\ cache = <<>>
    /\ disk = [k \in Keys |-> NoFile]
    /\ stats = [hits |-> 0, misses |-> 0, lastCleanup |-> 0]
    /\ pending = {}
    /\ last = Idle
    /\ hist = [k \in Keys |-> NoHist]
    /\ lru = <<>>
    /\ steps = 0
    /\ \E name \in JoinNames : views = <<name>>
    /\ inited = <<FALSE>>
    /\ maps = <<NoMap>>
    /\ files = {}
    /\ dirs = MkdirP(BaseDir)
    /\ nsLast = NsIdle
    /\ calls = <<>>
    /\ runs = 0
    /\ slot = NoSlot
    /\ locks = <<>>
    /\ fileLocks = 0
    /\ disposed = FALSE
    /\ EnvInit

JoinNext ==
    \/ \E v \in 1..MaxViews, name \in JoinNames : NsWithNamespace(v, name)
    \/ \E v \in 1..MaxViews, k \in Keys : JoinSet(v, k)
    \/ \E v \in 1..MaxViews, k \in Keys : JoinDelete(v, k)
    \/ \E v \in 1..MaxViews : JoinClear(v)

JoinSpec == JoinInit /\ [][JoinNext]_vars

\* the directories and the directories of the files that the step made or
\* removed
Touched ==
    ((dirs' \ dirs) \cup (dirs \ dirs'))
        \cup {f[1] : f \in (files' \ files) \cup (files \ files')}

\* C39 as stated: every file or directory that a call through an instance
\* makes or removes lies inside the namespace directory of the instance, and
\* instances with different namespace strings have directories none of which
\* is or lies inside another, whatever the namespace strings.
C39_Claim ==
    [][/\ \A p \in Touched : Inside(p, GetNamespaceDir(View(nsLast'.view)))
       /\ \A v \in NsViews, w \in NsViews :
              View(v) # View(w) =>
                  ~Inside(GetNamespaceDir(View(v)), GetNamespaceDir(View(w)))]_vars

-----------------------------------------------------------------------------
(* MemoryCache: which entry a set() at capacity evicts when some of the    *)
(* stored entries have expired and were neither read nor swept since.      *)

MaxExpSteps == 5

ExpStep == steps < MaxExpSteps /\ steps' = steps + 1

ExpFrame == UNCHANGED <<nsVars, lockVars, envVars>>

ExpSet(k, ttl) ==
    /\ ExpStep
    /\ MemSetBody("set", k, Fresh(1), ttl)
    /\ UNCHANGED <<maxSize, backend, defaultTtl, now, disk, stats, pending>>
    /\ ExpFrame

ExpGet(k) ==
    /\ ExpStep
    /\ MemGetBody("get", k)
    /\ UNCHANGED <<maxSize, backend, defaultTtl, now, disk, pending>>
    /\ ExpFrame

ExpTick ==
    /\ ExpStep
    /\ now' = now + MsPerSec
    /\ last' = Call("tick", NoKey, NotFound, TRUE, {})
    /\ UNCHANGED <<maxSize, backend, defaultTtl, cache, disk, stats, pending, hist, lru>>
    /\ ExpFrame

ExpInit == Init /\ backend = "memory"

ExpNext ==
    \/ \E k \in Keys, ttl \in TtlArgs : ExpSet(k, ttl)
    \/ \E k \in Keys : ExpGet(k)
    \/ ExpTick

ExpSpec == ExpInit /\ [][ExpNext]_vars

\* the stored entries that have expired
ExpiredKeys(c, t) == {k \in MemKeys(c) : Expired(MemEntry(c, k), t)}

\* C40 as stated: a set() of a new key into a full Map evicts no unexpired
\* entry while an expired entry is stored.
C40_Claim ==
    [][last'.op = "set" /\ ExpiredKeys(cache, now) # {}
           => last'.evicted \subseteq ExpiredKeys(cache, now)]_vars

====
